---- MODULE Spec2Model ----
(***************************************************************************)
(* Framework cost calculator: the cost engine, the comparator and the      *)
(* migration estimator of cost_calculator.py, and the request handlers of  *)
(* api.py, app.py and roi_analyzer.py that call them.                      *)
(*                                                                         *)
(* Money.  The program computes in binary floating point.  Every table     *)
(* entry is a short decimal, so every intermediate value is an exact       *)
(* decimal with at most 12 fractional digits; the model computes these     *)
(* exactly.  An amount before rounding is a Dec: a sign and a magnitude    *)
(* counted in 10^-12 dollars, held in NLimbs base-10^4 limbs (least        *)
(* significant first) because the model checker's integers have 32 bits.   *)
(* After round(x, 2) an amount is an integer number of cents, after        *)
(* round(x, 4) an integer number of 10^-4 dollars.                         *)
(*                                                                         *)
(* round().  Python rounds the binary value of the float correctly, so a   *)
(* value that is not a decimal tie rounds as its exact decimal does.  On   *)
(* an exact decimal tie (320.005) the representation error of the float    *)
(* decides, which exact arithmetic does not determine: the variable tie    *)
(* fixes, for a whole behaviour, which way a tie goes in each rounded      *)
(* field, and every property is checked for each resolution.               *)
(***************************************************************************)
EXTENDS Integers, Sequences, FiniteSets, TLC

VARIABLES
    model_pricing,       \* self.model_pricing: model id -> PricingData
    framework_metadata,  \* self.framework_metadata: framework id -> metadata
    development_costs,   \* the analyzer's self.development_costs
    risk_factors,        \* the analyzer's self.risk_factors
    tie,                 \* how round() resolves an exact decimal tie
    pc,                  \* "idle": waiting for a call; "done": a call has returned
    call,                \* the call being answered: its operation and arguments
    result               \* what the call returned or raised

\* The tables of the calculator and of the analyzer.
tables == <<model_pricing, framework_metadata, development_costs, risk_factors>>

vars == <<tables, tie, pc, call, result>>

(***************************************************************************)
(* Bounds of the checked input space.                                      *)
(***************************************************************************)
\* requests_per_month ranges over Spread values on each side of 0 and of
\* every tier breakpoint.
Spread == 2
\* custom_tokens ranges over None, -1, 0 and TokenStep * (1 .. MaxTokenSteps).
MaxTokenSteps == 2
TokenStep == 437
\* The longest horizon of an analysis, in months.
MaxPeriods == 36

(***************************************************************************)
(* Enumerations and static tables.                                         *)
(***************************************************************************)
\* class ModelProvider, in declaration order.
ModelProvider == <<"openai_gpt4o", "openai_gpt4o_mini", "claude_35_sonnet", "local_llm">>

\* class Framework, in declaration order.
Framework == <<"autogen", "crewai", "langchain", "langgraph", "semantic_kernel">>

Range(s) == {s[i] : i \in DOMAIN s}

\* PricingData(input_cost, output_cost): cents per 1M tokens.
PricingData(input_cost, output_cost) ==
    [input_cost |-> input_cost, output_cost |-> output_cost]

\* Mutant of average_cost: an even input/output split instead of 60/40.
average_cost_even_split(pricing) == pricing.input_cost * 5 + pricing.output_cost * 5

\* PricingData.average_cost: input * 0.6 + output * 0.4, in 10^-3 dollars per
\* 1M tokens (a cent times 0.6 is 6 tenths of a cent).
average_cost(pricing) == pricing.input_cost * 6 + pricing.output_cost * 4

MODEL_PRICING ==
    [m \in Range(ModelProvider) |->
        CASE m = "openai_gpt4o"      -> PricingData(500, 2000)
          [] m = "openai_gpt4o_mini" -> PricingData(15, 60)
          [] m = "claude_35_sonnet"  -> PricingData(300, 1500)
          [] m = "local_llm"         -> PricingData(5, 5)]

\* Mutant of FRAMEWORK_METADATA: the overhead multipliers of semantic_kernel
\* and langgraph exchanged.
FRAMEWORK_METADATA_exchanged ==
    [f \in Range(Framework) |->
        CASE f = "semantic_kernel" ->
                [avg_tokens_per_request |-> 1180 + 620, efficiency_score |-> 96,
                 overhead_multiplier |-> 120, description |-> "Enterprise integration"]
          [] f = "autogen" ->
                [avg_tokens_per_request |-> 1320 + 780, efficiency_score |-> 93,
                 overhead_multiplier |-> 112, description |-> "Research & development"]
          [] f = "crewai" ->
                [avg_tokens_per_request |-> 1450 + 850, efficiency_score |-> 90,
                 overhead_multiplier |-> 115, description |-> "Multi-agent systems"]
          [] f = "langchain" ->
                [avg_tokens_per_request |-> 1580 + 950, efficiency_score |-> 87,
                 overhead_multiplier |-> 116, description |-> "Flexible applications"]
          [] f = "langgraph" ->
                [avg_tokens_per_request |-> 1680 + 1080, efficiency_score |-> 84,
                 overhead_multiplier |-> 104, description |-> "Stateful workflows"]]

\* efficiency_score and overhead_multiplier in hundredths.
FRAMEWORK_METADATA ==
    [f \in Range(Framework) |->
        CASE f = "semantic_kernel" ->
                [avg_tokens_per_request |-> 1180 + 620, efficiency_score |-> 96,
                 overhead_multiplier |-> 104, description |-> "Enterprise integration"]
          [] f = "autogen" ->
                [avg_tokens_per_request |-> 1320 + 780, efficiency_score |-> 93,
                 overhead_multiplier |-> 112, description |-> "Research & development"]
          [] f = "crewai" ->
                [avg_tokens_per_request |-> 1450 + 850, efficiency_score |-> 90,
                 overhead_multiplier |-> 115, description |-> "Multi-agent systems"]
          [] f = "langchain" ->
                [avg_tokens_per_request |-> 1580 + 950, efficiency_score |-> 87,
                 overhead_multiplier |-> 116, description |-> "Flexible applications"]
          [] f = "langgraph" ->
                [avg_tokens_per_request |-> 1680 + 1080, efficiency_score |-> 84,
                 overhead_multiplier |-> 120, description |-> "Stateful workflows"]]

(***************************************************************************)
(* Exact decimal arithmetic.                                               *)
(***************************************************************************)
Base == 10000
NLimbs == 8

Abs(x) == IF x < 0 THEN 0 - x ELSE x

ZeroMag == [i \in 1..NLimbs |-> 0]

\* The magnitude n * Base^(shift) for 0 <= n < 2^31 and shift in 0..3.
NatMag(n, shift) ==
    [i \in 1..NLimbs |->
        IF i = shift + 1 THEN n % Base
        ELSE IF i = shift + 2 THEN (n \div Base) % Base
        ELSE IF i = shift + 3 THEN n \div (Base * Base)
        ELSE 0]

RECURSIVE MulCarry(_, _, _, _)
MulCarry(mag, k, i, carry) ==
    IF i > NLimbs THEN <<>>
    ELSE LET p == mag[i] * k + carry
         IN  <<p % Base>> \o MulCarry(mag, k, i + 1, p \div Base)

\* mag * k for 0 <= k <= 200000.
MulMag(mag, k) == MulCarry(mag, k, 1, 0)

RECURSIVE AddCarry(_, _, _, _)
AddCarry(a, b, i, carry) ==
    IF i > NLimbs THEN <<>>
    ELSE LET s == a[i] + b[i] + carry
         IN  <<s % Base>> \o AddCarry(a, b, i + 1, s \div Base)

AddMag(a, b) == AddCarry(a, b, 1, 0)

RECURSIVE SubBorrow(_, _, _, _)
SubBorrow(a, b, i, borrow) ==
    IF i > NLimbs THEN <<>>
    ELSE LET d == a[i] - b[i] - borrow
         IN  IF d < 0 THEN <<d + Base>> \o SubBorrow(a, b, i + 1, 1)
             ELSE <<d>> \o SubBorrow(a, b, i + 1, 0)

\* a - b for a >= b.
SubMag(a, b) == SubBorrow(a, b, 1, 0)

RECURSIVE LessFrom(_, _, _)
LessFrom(a, b, i) ==
    IF i = 0 THEN FALSE
    ELSE IF a[i] # b[i] THEN a[i] < b[i]
    ELSE LessFrom(a, b, i - 1)

LessMag(a, b) == LessFrom(a, b, NLimbs)

Dec(neg, mag) == [neg |-> neg /\ mag # ZeroMag, mag |-> mag]

\* An integer (tokens, a count): n dollars * 10^-12, so that DecMul scales it.
DecUnits(n) == Dec(n < 0, NatMag(Abs(n), 0))

\* An integer number of 10^-4 dollars as a Dec.
DecOfE4(x) == Dec(x < 0, NatMag(Abs(x), 2))

\* d * k for an integer k with |k| <= 200000.
DecMul(d, k) == Dec(d.neg # (k < 0), MulMag(d.mag, Abs(k)))

DecAdd(a, b) ==
    IF a.neg = b.neg THEN Dec(a.neg, AddMag(a.mag, b.mag))
    ELSE IF LessMag(a.mag, b.mag) THEN Dec(b.neg, SubMag(b.mag, a.mag))
    ELSE Dec(a.neg, SubMag(a.mag, b.mag))

\* round() on an exact decimal tie: each rounded field of a result goes down
\* (towards zero) or up (away from zero), as the float's error decides.
\* (monitoring_cost is a whole number of dollars and never ties).
TieFields == {"api_cost", "infrastructure_cost", "total_cost", "cost_per_request",
              "savings_percentage", "development_cost", "npv", "break_even_month"}

TiePolicies == [TieFields -> {"down", "up"}]

\* The resolutions that differ only on the fields a call's result depends on.
Resolutions(fields) ==
    {p \in TiePolicies : \A f \in TieFields \ fields : p[f] = "down"}

CostFields == {"api_cost", "infrastructure_cost", "total_cost", "cost_per_request"}
RoiFields == {"total_cost", "development_cost", "npv", "break_even_month"}

ResolveTie(q, how) == IF how = "up" THEN q + 1 ELSE q

\* round(num / den) to the nearest integer for den # 0, ties by tie[field].
round_ratio(num, den, field) ==
    LET q == Abs(num) \div Abs(den)
        r == Abs(num) % Abs(den)
        m == IF 2 * r > Abs(den) THEN q + 1
             ELSE IF 2 * r = Abs(den) THEN ResolveTie(q, tie[field])
             ELSE q
    IN  IF (num < 0) # (den < 0) THEN 0 - m ELSE m

\* round(d, places) for places 2 or 4, as an integer number of 10^-places
\* dollars; field names the result field, whose ties tie[field] resolves.
\* whole: the magnitude in 10^-4 dollars; low: what lies below it.
round_(d, places, field) ==
    LET whole == d.mag[3] + d.mag[4] * Base + d.mag[5] * Base * Base
        low   == d.mag[1] + d.mag[2] * Base
        q     == IF places = 4 THEN whole ELSE whole \div 100
        r     == IF places = 4 THEN 0 ELSE whole % 100
        above == IF places = 4 THEN low > 50000000
                 ELSE r > 50 \/ (r = 50 /\ low > 0)
        tied  == IF places = 4 THEN low = 50000000
                 ELSE r = 50 /\ low = 0
        m     == IF above THEN q + 1
                 ELSE IF tied THEN ResolveTie(q, tie[field])
                 ELSE q
    IN  IF d.neg THEN 0 - m ELSE m

(***************************************************************************)
(* The cost engine.                                                        *)
(***************************************************************************)
\* Optional[int]: <<>> is None, <<v>> is the integer v.
None == <<>>
Some(v) == <<v>>

\* Python's truth value of an Optional[int]: None and 0 are false.
Truthy(opt) == opt # None /\ opt[1] # 0

\* The cost of one request (Dec).  tokens * overhead/100 / 10^6 * average/10^3
\* dollars is tokens * overhead * average * 10 units of 10^-12 dollars.
calculate_cost_per_request(framework, model, custom_tokens) ==
    LET framework_data == framework_metadata[framework]
        pricing        == model_pricing[model]
        total_tokens   == IF Truthy(custom_tokens) THEN custom_tokens[1]
                          ELSE framework_data.avg_tokens_per_request
        adjusted_tokens == DecMul(DecUnits(total_tokens),
                                  framework_data.overhead_multiplier)
        cost_per_million == average_cost(pricing)
    IN  DecMul(DecMul(adjusted_tokens, cost_per_million), 10)

\* Mutant of _estimate_infrastructure_cost: <= for <, so that a breakpoint
\* belongs to the tier below it.
_estimate_infrastructure_cost_inclusive(requests_per_month) ==
    IF requests_per_month <= 1000 THEN 35 * 10000
    ELSE IF requests_per_month <= 10000
        THEN 85 * 10000 + (requests_per_month - 1000) * 100
    ELSE IF requests_per_month <= 100000
        THEN 320 * 10000 + (requests_per_month - 10000) * 50
    ELSE 850 * 10000 + (requests_per_month - 100000) * 20

\* Mutant of _estimate_infrastructure_cost: the base costs of the two middle
\* tiers exchanged, so that the cost drops at 10000 requests.
_estimate_infrastructure_cost_exchanged(requests_per_month) ==
    IF requests_per_month < 1000 THEN 35 * 10000
    ELSE IF requests_per_month < 10000
        THEN 320 * 10000 + (requests_per_month - 1000) * 100
    ELSE IF requests_per_month < 100000
        THEN 85 * 10000 + (requests_per_month - 10000) * 50
    ELSE 850 * 10000 + (requests_per_month - 100000) * 20

\* Infrastructure cost in 10^-4 dollars (0.01 is 100, 0.005 is 50, 0.002 is 20).
_estimate_infrastructure_cost(requests_per_month) ==
    IF requests_per_month < 1000 THEN 35 * 10000
    ELSE IF requests_per_month < 10000
        THEN 85 * 10000 + (requests_per_month - 1000) * 100
    ELSE IF requests_per_month < 100000
        THEN 320 * 10000 + (requests_per_month - 10000) * 50
    ELSE 850 * 10000 + (requests_per_month - 100000) * 20

\* Monitoring cost in dollars.
_estimate_monitoring_cost(requests_per_month) ==
    IF requests_per_month < 1000 THEN 15
    ELSE IF requests_per_month < 10000 THEN 45
    ELSE IF requests_per_month < 100000 THEN 125
    ELSE 250

\* The cost breakdown: the costs in cents, cost_per_request in 10^-4 dollars.
calculate_monthly_cost(framework, model, requests_per_month, custom_tokens) ==
    LET breakdown(cost_per_request, api_cost, infrastructure_cost, monitoring_cost) ==
            [api_cost            |-> round_(api_cost, 2, "api_cost"),
             infrastructure_cost |->
                round_(infrastructure_cost, 2, "infrastructure_cost"),
             monitoring_cost     |-> round_(monitoring_cost, 2, "monitoring_cost"),
             total_cost          |->
                round_(DecAdd(DecAdd(api_cost, infrastructure_cost),
                              monitoring_cost), 2, "total_cost"),
             cost_per_request    |-> round_(cost_per_request, 4, "cost_per_request")]
        monthly(cost_per_request) ==
            breakdown(cost_per_request,
                      DecMul(cost_per_request, requests_per_month),
                      DecOfE4(_estimate_infrastructure_cost(requests_per_month)),
                      DecOfE4(_estimate_monitoring_cost(requests_per_month) * 10000))
    IN  monthly(calculate_cost_per_request(framework, model, custom_tokens))

(***************************************************************************)
(* The comparator and the migration estimator.                             *)
(***************************************************************************)
\* What a call raises instead of returning.
Raised(exc) == [kind |-> "raise", exc |-> exc]
Returned(value) == [kind |-> "ok", value |-> value]

\* The first of the outcomes that is an exception, or Returned(<<>>).
RECURSIVE FirstRaised(_)
FirstRaised(outcomes) ==
    IF outcomes = <<>> THEN Returned(<<>>)
    ELSE IF outcomes[1].kind = "raise" THEN outcomes[1]
    ELSE FirstRaised(Tail(outcomes))

\* An argument of the wrong type: a text where a token count is expected.
StrTokens == <<"str", "many">>
IsStr(custom_tokens) == Len(custom_tokens) = 2

\* A call of calculate_monthly_cost with whatever the caller passes: the
\* lookups of lines 93 and 94 raise KeyError for a key the tables lack, the
\* product of line 100 raises TypeError for a text.
try_calculate_monthly_cost(framework, model, requests_per_month, custom_tokens) ==
    IF framework \notin DOMAIN framework_metadata THEN Raised("KeyError")
    ELSE IF model \notin DOMAIN model_pricing THEN Raised("KeyError")
    ELSE IF IsStr(custom_tokens) THEN Raised("TypeError")
    ELSE Returned(calculate_monthly_cost(framework, model, requests_per_month,
                                         custom_tokens))

\* framework.value.replace("_", " ").title() on the five members.
framework_name(framework) ==
    CASE framework = "autogen"         -> "Autogen"
      [] framework = "crewai"          -> "Crewai"
      [] framework = "langchain"       -> "Langchain"
      [] framework = "langgraph"       -> "Langgraph"
      [] framework = "semantic_kernel" -> "Semantic Kernel"

\* Mutant of Insert: x put before the items of equal key.
RECURSIVE Insert_before_equal(_, _)
Insert_before_equal(items, x) ==
    IF items = <<>> THEN <<x>>
    ELSE IF x[2].total_cost <= items[1][2].total_cost THEN <<x>> \o items
    ELSE <<items[1]>> \o Insert_before_equal(Tail(items), x)

\* sorted(items, key=total_cost): a stable sort.  Insert puts x behind every
\* item whose key is not greater.
RECURSIVE Insert(_, _)
Insert(items, x) ==
    IF items = <<>> THEN <<x>>
    ELSE IF x[2].total_cost < items[1][2].total_cost THEN <<x>> \o items
    ELSE <<items[1]>> \o Insert(Tail(items), x)

\* Mutant of sorted: the items left in insertion order.
sorted_unsorted(items) == items

RECURSIVE sorted(_)
sorted(items) ==
    IF items = <<>> THEN <<>>
    ELSE Insert(sorted(SubSeq(items, 1, Len(items) - 1)), items[Len(items)])

\* The entry of framework i in results: its costs, name and description.
ResultItem(i, costs) ==
    <<Framework[i],
      costs @@ [framework_name |-> framework_name(Framework[i]),
                description |-> framework_metadata[Framework[i]].description]>>

\* The items of the outcomes that are no exception, in their order.
RECURSIVE ItemsReturned(_, _)
ItemsReturned(outcomes, i) ==
    IF i > Len(outcomes) THEN <<>>
    ELSE IF outcomes[i].kind = "raise" THEN ItemsReturned(outcomes, i + 1)
    ELSE <<ResultItem(i, outcomes[i].value)>> \o ItemsReturned(outcomes, i + 1)

\* Mutant of compare_frameworks: a framework whose computation fails is left
\* out and the others are returned.
compare_frameworks_skipping(model, requests_per_month, custom_tokens) ==
    Returned(sorted(ItemsReturned(
        [i \in DOMAIN Framework |->
            try_calculate_monthly_cost(Framework[i], model, requests_per_month,
                                       custom_tokens)], 1)))

\* The ordered dict of results: a sequence of <<framework id, entry>>, or
\* the exception of the first computation that raises one.
compare_frameworks(model, requests_per_month, custom_tokens) ==
    LET compared(outcomes) ==
            IF FirstRaised(outcomes).kind = "raise" THEN FirstRaised(outcomes)
            ELSE Returned(sorted([i \in DOMAIN Framework |->
                                    ResultItem(i, outcomes[i].value)]))
    IN  compared([i \in DOMAIN Framework |->
                    try_calculate_monthly_cost(Framework[i], model,
                                               requests_per_month, custom_tokens)])

\* Mutant of estimate_migration_savings: the new cost taken without its
\* monitoring share.
estimate_migration_savings_net(from_framework, to_framework, model, requests_per_month) ==
    LET savings(current_cost, new_cost) ==
            LET new_total == new_cost.total_cost - new_cost.monitoring_cost
                monthly_savings == current_cost.total_cost - new_total
            IN  IF current_cost.total_cost = 0 THEN Raised("ZeroDivisionError")
                ELSE Returned(
                    [current_monthly_cost |-> current_cost.total_cost,
                     new_monthly_cost     |-> new_total,
                     monthly_savings      |-> monthly_savings,
                     annual_savings       |-> monthly_savings * 12,
                     savings_percentage   |->
                        round_ratio(monthly_savings * 1000, current_cost.total_cost,
                                    "savings_percentage")])
    IN  savings(calculate_monthly_cost(from_framework, model, requests_per_month, None),
                calculate_monthly_cost(to_framework, model, requests_per_month, None))

\* Mutant of estimate_migration_savings: a current total of 0 divided through
\* as if the quotient were 0.
estimate_migration_savings_unguarded(from_framework, to_framework, model, requests_per_month) ==
    LET savings(current_cost, new_cost) ==
            LET monthly_savings == current_cost.total_cost - new_cost.total_cost
            IN  Returned(
                    [current_monthly_cost |-> current_cost.total_cost,
                     new_monthly_cost     |-> new_cost.total_cost,
                     monthly_savings      |-> monthly_savings,
                     annual_savings       |-> monthly_savings * 12,
                     savings_percentage   |->
                        IF current_cost.total_cost = 0 THEN 0
                        ELSE round_ratio(monthly_savings * 1000,
                                         current_cost.total_cost,
                                         "savings_percentage")])
    IN  savings(calculate_monthly_cost(from_framework, model, requests_per_month, None),
                calculate_monthly_cost(to_framework, model, requests_per_month, None))

\* Mutant of estimate_migration_savings: the savings taken without their sign.
estimate_migration_savings_unsigned(from_framework, to_framework, model, requests_per_month) ==
    LET savings(current_cost, new_cost) ==
            LET monthly_savings == Abs(current_cost.total_cost - new_cost.total_cost)
                annual_savings == monthly_savings * 12
            IN  IF current_cost.total_cost = 0 THEN Raised("ZeroDivisionError")
                ELSE Returned(
                    [current_monthly_cost |-> current_cost.total_cost,
                     new_monthly_cost     |-> new_cost.total_cost,
                     monthly_savings      |-> monthly_savings,
                     annual_savings       |-> annual_savings,
                     savings_percentage   |->
                        round_ratio(monthly_savings * 1000, current_cost.total_cost,
                                    "savings_percentage")])
    IN  savings(calculate_monthly_cost(from_framework, model, requests_per_month, None),
                calculate_monthly_cost(to_framework, model, requests_per_month, None))

\* Costs in cents, savings_percentage in tenths of a percent; the outcome is
\* Returned(record) or Raised("ZeroDivisionError").
estimate_migration_savings(from_framework, to_framework, model, requests_per_month) ==
    LET savings(current_cost, new_cost) ==
            LET monthly_savings == current_cost.total_cost - new_cost.total_cost
                annual_savings == monthly_savings * 12
            IN  IF current_cost.total_cost = 0 THEN Raised("ZeroDivisionError")
                ELSE Returned(
                    [current_monthly_cost |-> current_cost.total_cost,
                     new_monthly_cost     |-> new_cost.total_cost,
                     monthly_savings      |-> monthly_savings,
                     annual_savings       |-> annual_savings,
                     savings_percentage   |->
                        round_ratio(monthly_savings * 1000, current_cost.total_cost,
                                    "savings_percentage")])
    IN  savings(calculate_monthly_cost(from_framework, model, requests_per_month, None),
                calculate_monthly_cost(to_framework, model, requests_per_month, None))

(***************************************************************************)
(* The HTTP API (api.py) and the web application (app.py).                 *)
(*                                                                         *)
(* A request parameter is a list of texts: <<>> when the key is absent,    *)
(* <<text>> otherwise.  The text of an identifier is the identifier; the   *)
(* text of a number is Numeral(n), any other text is NotANumber.           *)
(***************************************************************************)
Numeral(n) == [numeric |-> TRUE, value |-> n]
NotANumber == [numeric |-> FALSE, value |-> 0]

\* int(text): the integer a numeral denotes, ValueError otherwise.
int_(text) == IF text.numeric THEN Returned(text.value) ELSE Raised("ValueError")

\* params[key][0], or data[key]: KeyError when the key is absent.
Item(params, key) ==
    IF params[key] = <<>> THEN Raised("KeyError") ELSE Returned(params[key][1])

\* Mutant of EnumOf: a value that is no member taken for the first member.
EnumOf_defaulting(members, value) ==
    IF value \in Range(members) THEN Returned(value) ELSE Returned(members[1])

\* Framework(value), ModelProvider(value): ValueError when value is no member.
EnumOf(members, value) ==
    IF value \in Range(members) THEN Returned(value) ELSE Raised("ValueError")

\* Framework(params[key][0]) and the like: the first exception raised.
EnumItem(members, params, key) ==
    LET item == Item(params, key)
    IN  IF item.kind = "ok" THEN EnumOf(members, item.value) ELSE item

\* int(params[key][0]).
IntItem(params, key) ==
    LET item == Item(params, key)
    IN  IF item.kind = "ok" THEN int_(item.value) ELSE item

\* int(params.get('tokens', [None])[0]) if params.get('tokens') else None
TokensItem(params) ==
    IF params["tokens"] = <<>> THEN Returned(None)
    ELSE LET v == int_(params["tokens"][1])
         IN  IF v.kind = "ok" THEN Returned(Some(v.value)) ELSE v

\* _send_response(status_code, data)
Response(status, body) == [kind |-> "response", status |-> status, body |-> body]

_handle_frameworks ==
    Response(200,
        [frameworks |->
            [i \in DOMAIN Framework |->
                [id |-> Framework[i],
                 name |-> framework_name(Framework[i]),
                 description |-> framework_metadata[Framework[i]].description,
                 efficiency_score |-> framework_metadata[Framework[i]].efficiency_score,
                 avg_tokens |->
                    framework_metadata[Framework[i]].avg_tokens_per_request]]])

_handle_models ==
    Response(200,
        [models |->
            [i \in DOMAIN ModelProvider |->
                [id |-> ModelProvider[i],
                 input_cost_per_1m |-> model_pricing[ModelProvider[i]].input_cost,
                 output_cost_per_1m |-> model_pricing[ModelProvider[i]].output_cost,
                 average_cost_per_1m |->
                    average_cost(model_pricing[ModelProvider[i]])]]])

\* A handler answers, or lets an exception it does not catch escape (Raised).
_handle_calculate(params) ==
    LET framework == EnumItem(Framework, params, "framework")
        model     == EnumItem(ModelProvider, params, "model")
        requests  == IntItem(params, "requests")
        tokens    == TokensItem(params)
        failed    == FirstRaised(<<framework, model, requests, tokens>>)
    IN  IF failed.kind = "raise"
        THEN Response(400, [error |-> <<"Invalid parameters", failed.exc>>])
        ELSE Response(200, calculate_monthly_cost(framework.value, model.value,
                                                  requests.value, tokens.value))

_handle_compare(params) ==
    LET model    == EnumItem(ModelProvider, params, "model")
        requests == IntItem(params, "requests")
        tokens   == TokensItem(params)
        failed   == FirstRaised(<<model, requests, tokens>>)
    IN  IF failed.kind = "raise"
        THEN Response(400, [error |-> <<"Invalid parameters", failed.exc>>])
        ELSE LET send(result_) ==
                    IF result_.kind = "ok"
                    THEN Response(200, [comparison |-> result_.value])
                    ELSE IF result_.exc \in {"KeyError", "ValueError", "IndexError"}
                    THEN Response(400, [error |-> <<"Invalid parameters", result_.exc>>])
                    ELSE result_
             IN  send(compare_frameworks(model.value, requests.value, tokens.value))

_handle_migration(params) ==
    LET from_fw  == EnumItem(Framework, params, "from")
        to_fw    == EnumItem(Framework, params, "to")
        model    == EnumItem(ModelProvider, params, "model")
        requests == IntItem(params, "requests")
        failed   == FirstRaised(<<from_fw, to_fw, model, requests>>)
    IN  IF failed.kind = "raise"
        THEN Response(400, [error |-> <<"Invalid parameters", failed.exc>>])
        ELSE LET send(savings) == IF savings.kind = "raise" THEN savings
                                   ELSE Response(200, savings.value)
             IN  send(estimate_migration_savings(from_fw.value, to_fw.value,
                                                 model.value, requests.value))

\* A request target urlparse does not take: it raises ValueError
\* ("Invalid IPv6 URL").
UnparseableTarget == "//["

\* urlparse(self.path).path
urlparse(target) ==
    IF target = UnparseableTarget THEN Raised("ValueError") ELSE Returned(target)

\* do_GET: the target is parsed before the try; then the dispatch, and 500
\* for whatever a handler lets escape.  A Raised outcome leaves do_GET and
\* nothing is sent.
do_GET(path, params) ==
    LET caught(answer) == IF answer.kind = "raise"
                          THEN Response(500, [error |-> answer.exc])
                          ELSE answer
    IN  IF urlparse(path).kind = "raise" THEN urlparse(path)
        ELSE caught(
            CASE path = "/"           -> Response(200,
                    [message |-> "Framework Cost Calculator API", version |-> "1.0"])
              [] path = "/frameworks" -> _handle_frameworks
              [] path = "/models"     -> _handle_models
              [] path = "/calculate"  -> _handle_calculate(params)
              [] path = "/compare"    -> _handle_compare(params)
              [] path = "/migration"  -> _handle_migration(params)
              [] OTHER                -> Response(404, [error |-> "Endpoint not found"]))

\* The body of a POST request as json.loads takes it: text that is no JSON,
\* a JSON array, or a JSON object whose members are the data.  A member is
\* <<>> when absent and <<text>> otherwise; "tokens" is handed on as it is,
\* a number (a numeral) or a string (any other text).
InvalidJson == [json |-> "invalid"]
JsonArray == [json |-> "array"]
JsonObject(data) == [json |-> "object", data |-> data]

\* data[key] of the parsed body: TypeError for an array, KeyError for an
\* object without the member.
Member(body, key) ==
    IF body.json = "array" THEN Raised("TypeError") ELSE Item(body.data, key)

EnumMember(members, body, key) ==
    LET member == Member(body, key)
    IN  IF member.kind = "ok" THEN EnumOf(members, member.value) ELSE member

IntMember(body, key) ==
    LET member == Member(body, key)
    IN  IF member.kind = "ok" THEN int_(member.value) ELSE member

\* data.get('tokens'): AttributeError for an array.
GetTokens(body) ==
    IF body.json = "array" THEN Raised("AttributeError")
    ELSE IF body.data["tokens"] = <<>> THEN Returned(None)
    ELSE IF body.data["tokens"][1].numeric
        THEN Returned(Some(body.data["tokens"][1].value))
    ELSE Returned(StrTokens)

\* except (KeyError, ValueError) of the POST handlers: 400, or the exception
\* leaves the handler.
invalid_data(failed) ==
    IF failed.exc \in {"KeyError", "ValueError"}
    THEN Response(400, [error |-> <<"Invalid data", failed.exc>>])
    ELSE failed

_handle_post_calculate(data) ==
    LET framework == EnumMember(Framework, data, "framework")
        model     == EnumMember(ModelProvider, data, "model")
        requests  == IntMember(data, "requests")
        tokens    == GetTokens(data)
        failed    == FirstRaised(<<framework, model, requests, tokens>>)
    IN  IF failed.kind = "raise" THEN invalid_data(failed)
        ELSE LET send(result_) == IF result_.kind = "ok"
                                  THEN Response(200, result_.value)
                                  ELSE invalid_data(result_)
             IN  send(try_calculate_monthly_cost(framework.value, model.value,
                                                 requests.value, tokens.value))

_handle_post_compare(data) ==
    LET model    == EnumMember(ModelProvider, data, "model")
        requests == IntMember(data, "requests")
        tokens   == GetTokens(data)
        failed   == FirstRaised(<<model, requests, tokens>>)
    IN  IF failed.kind = "raise" THEN invalid_data(failed)
        ELSE LET send(result_) == IF result_.kind = "ok"
                                  THEN Response(200, [comparison |-> result_.value])
                                  ELSE invalid_data(result_)
             IN  send(compare_frameworks(model.value, requests.value, tokens.value))

_handle_post_migration(data) ==
    LET from_fw  == EnumMember(Framework, data, "from")
        to_fw    == EnumMember(Framework, data, "to")
        model    == EnumMember(ModelProvider, data, "model")
        requests == IntMember(data, "requests")
        failed   == FirstRaised(<<from_fw, to_fw, model, requests>>)
    IN  IF failed.kind = "raise" THEN invalid_data(failed)
        ELSE LET send(savings) == IF savings.kind = "ok"
                                  THEN Response(200, savings.value)
                                  ELSE invalid_data(savings)
             IN  send(estimate_migration_savings(from_fw.value, to_fw.value,
                                                 model.value, requests.value))

\* int(self.headers['Content-Length']): the header is <<>> when absent
\* (self.headers[...] is None then) and <<text>> otherwise.
content_length(headers) ==
    IF headers = <<>> THEN Raised("TypeError") ELSE int_(headers[1])

\* do_POST: the Content-Length is read before the try; then json.loads, the
\* parse of the target and the dispatch, 400 for text that is no JSON and
\* 500 for whatever else is raised.  A Raised outcome leaves do_POST and
\* nothing is sent.
do_POST(headers, body, path) ==
    LET caught(answer) == IF answer.kind = "raise"
                          THEN Response(500, [error |-> answer.exc])
                          ELSE answer
    IN  IF content_length(headers).kind = "raise" THEN content_length(headers)
        ELSE IF body.json = "invalid" THEN Response(400, [error |-> "Invalid JSON"])
        ELSE caught(
            CASE urlparse(path).kind = "raise" -> urlparse(path)
              [] path = "/calculate" -> _handle_post_calculate(body)
              [] path = "/compare"   -> _handle_post_compare(body)
              [] path = "/migration" -> _handle_post_migration(body)
              [] OTHER               -> Response(404, [error |-> "Endpoint not found"]))

\* app.py calculate_costs: the JSON body's fields are the parameters; every
\* exception is answered with status 400.
calculate_costs(data) ==
    LET framework == EnumItem(Framework, data, "framework")
        model     == EnumItem(ModelProvider, data, "model")
        requests  == IntItem(data, "requests_per_month")
        \* custom_tokens = data.get('custom_tokens'); if custom_tokens: int(...)
        given     == data["custom_tokens"]
        tokens    == IF given = <<>> THEN Returned(None)
                     ELSE IF given[1].numeric /\ given[1].value = 0
                        THEN Returned(Some(0))
                     ELSE LET v == int_(given[1])
                          IN  IF v.kind = "ok" THEN Returned(Some(v.value)) ELSE v
        failed    == FirstRaised(<<framework, model, requests, tokens>>)
    IN  IF failed.kind = "raise"
        THEN Response(400, [success |-> FALSE, error |-> failed.exc])
        ELSE Response(200,
                [success |-> TRUE,
                 data |-> calculate_monthly_cost(framework.value, model.value,
                                                 requests.value, tokens.value)])

(***************************************************************************)
(* The ROI analyzer (roi_analyzer.py): the costs and the development cost  *)
(* of calculate_comprehensive_roi.                                         *)
(***************************************************************************)
\* self.development_costs as __init__ builds it: base_cost in dollars,
\* complexity_multiplier in tenths.
DEVELOPMENT_COSTS ==
    [f \in Range(Framework) |->
        CASE f = "semantic_kernel" -> [base_cost |-> 25000, complexity_multiplier |-> 8]
          [] f = "autogen"         -> [base_cost |-> 35000, complexity_multiplier |-> 11]
          [] f = "crewai"          -> [base_cost |-> 30000, complexity_multiplier |-> 10]
          [] f = "langchain"       -> [base_cost |-> 40000, complexity_multiplier |-> 13]
          [] f = "langgraph"       -> [base_cost |-> 45000, complexity_multiplier |-> 14]]

\* Mutant of RISK_FACTORS: the multipliers of enterprise and research exchanged.
RISK_FACTORS_exchanged ==
    [r \in {"startup", "growth", "enterprise", "research"} |->
        CASE r = "startup"    -> 13
          [] r = "growth"     -> 11
          [] r = "enterprise" -> 12
          [] r = "research"   -> 9]

\* self.risk_factors as __init__ builds it, in tenths.
RISK_FACTORS ==
    [r \in {"startup", "growth", "enterprise", "research"} |->
        CASE r = "startup"    -> 13
          [] r = "growth"     -> 11
          [] r = "enterprise" -> 9
          [] r = "research"   -> 12]

Min(a, b) == IF a < b THEN a ELSE b

RECURSIVE GCD(_, _)
GCD(a, b) == IF b = 0 THEN a ELSE GCD(b, a % b)

\* The quotient num / den of a float division, for den # 0: its exact value
\* in lowest terms with a positive denominator, and the side of that value
\* the float lies on (-1 below, 0 at, 1 above).
Ratio(num, den) ==
    LET g == GCD(Abs(num), Abs(den))
    IN  [num |-> (IF den < 0 THEN 0 - num ELSE num) \div g, den |-> Abs(den) \div g,
         off |-> 0]

\* A float quotient whose operands carry rounding errors (a difference of two
\* costs, a product with a risk factor): where its exact value is a whole
\* number the float is that number or the next float on the given side, as
\* the errors decide.
Inexact(quotient, side) ==
    IF quotient.kind = "ok" /\ quotient.value.den = 1
            /\ tie["break_even_month"] = "down"
    THEN Returned([quotient.value EXCEPT !.off = side])
    ELSE quotient

\* q > n and q < n of a float quotient q and an integer n.
Exceeds(q, n) == q.num > n * q.den \/ (q.num = n * q.den /\ q.off > 0)
Below(q, n) == q.num < n * q.den \/ (q.num = n * q.den /\ q.off < 0)

\* num / den of floats: the quotient, or ZeroDivisionError.
truediv(num, den) ==
    IF den = 0 THEN Raised("ZeroDivisionError") ELSE Returned(Ratio(num, den))

\* int(q) for a float quotient q > 0: a float just below a whole number k
\* truncates to k - 1.
int(q) ==
    IF q.den = 1 /\ q.off < 0 THEN q.num - 1
    ELSE q.num \div q.den

\* self.discount_rate = 0.10, in hundredths.
discount_rate == 10

\* 1 / (1 + monthly_discount_rate) = 1.10 ^ (-1/12) = 0.9920889434469909...,
\* a fraction of 16 decimals as FracLimbs limbs, the lowest first.
FracLimbs == 4
MonthlyDiscount == <<9909, 3446, 8894, 9920>>

\* Column k of the product of two fractions.
FracColumn(a, b, k) ==
    LET term(i) == IF (k + 1 - i) \in 1..FracLimbs THEN a[i] * b[k + 1 - i] ELSE 0
    IN  term(1) + term(2) + term(3) + term(4)

RECURSIVE FracProduct(_, _, _, _)
FracProduct(a, b, k, carry) ==
    IF k > 2 * FracLimbs THEN <<>>
    ELSE LET column(sum) == <<sum % Base>> \o FracProduct(a, b, k + 1, sum \div Base)
         IN  column(FracColumn(a, b, k) + carry)

\* The product of two fractions, cut to 16 decimals.
FracMul(a, b) == SubSeq(FracProduct(a, b, 1, 0), FracLimbs + 1, 2 * FracLimbs)

\* A fraction as a magnitude.
FracMag(a) == [i \in 1..NLimbs |-> IF i <= FracLimbs THEN a[i] ELSE 0]

\* 1 / (1 + monthly_discount_rate) ^ month for month >= 1.
RECURSIVE DiscountPower(_)
DiscountPower(month) ==
    IF month = 1 THEN MonthlyDiscount
    ELSE FracMul(DiscountPower(month \div 2), DiscountPower(month - month \div 2))

DiscountFactors == [month \in 1..MaxPeriods |-> DiscountPower(month)]

\* The sum of 1 / (1 + monthly_discount_rate) ^ month over
\* range(first, last + 1), in units of 10^-16.
RECURSIVE DiscountSum(_, _)
DiscountSum(first, last) ==
    IF first > last THEN ZeroMag
    ELSE IF first = last THEN FracMag(DiscountFactors[first])
    ELSE AddMag(DiscountSum(first, (first + last) \div 2),
                DiscountSum((first + last) \div 2 + 1, last))

DiscountSums == [periods \in 0..MaxPeriods |-> DiscountSum(1, periods)]

\* mag * k for 0 <= k < 2 * 10^9.
MulMagInt(mag, k) ==
    IF k <= Base THEN MulMag(mag, k)
    ELSE AddMag(MulMag(MulMag(mag, k \div Base), Base), MulMag(mag, k % Base))

\* round(npv, 2) of a Dec in units of 10^-18 dollars, in cents.  The sum of
\* the discounted flows is known to 10^-6 dollars; a value that close to
\* the middle of two cents goes where tie["npv"] says.
round_npv(d) ==
    LET cents == d.mag[5] + d.mag[6] * Base + d.mag[7] * Base * Base
        m     == IF d.mag[4] > 5000 THEN cents + 1
                 ELSE IF d.mag[4] \in {4999, 5000} THEN ResolveTie(cents, tie["npv"])
                 ELSE cents
    IN  IF d.neg THEN 0 - m ELSE m

_calculate_npv_inflow(initial_investment, monthly_cash_flow, periods) ==
    round_npv(
        DecAdd(Dec(initial_investment < 0,
                   MulMag(NatMag(Abs(initial_investment), 3), 1000)),
               Dec(monthly_cash_flow < 0,
                   MulMagInt(DiscountSums[IF periods < 0 THEN 0 ELSE periods],
                             Abs(monthly_cash_flow)))))

\* _calculate_npv in cents: initial_investment in 10^-3 dollars,
\* monthly_cash_flow in cents.
_calculate_npv(initial_investment, monthly_cash_flow, periods) ==
    round_npv(
        DecAdd(Dec(initial_investment > 0,
                   MulMag(NatMag(Abs(initial_investment), 3), 1000)),
               Dec(monthly_cash_flow < 0,
                   MulMagInt(DiscountSums[IF periods < 0 THEN 0 ELSE periods],
                             Abs(monthly_cash_flow)))))

\* Mutant of calculate_development_cost: the team multiplier without its cap.
calculate_development_cost_uncapped(framework, team_size, complexity_factor, timeline_months) ==
    IF framework \notin DOMAIN development_costs THEN Raised("ValueError")
    ELSE
        LET base_data == development_costs[framework]
            base_cost == base_data.base_cost
            team_multiplier ==
                IF team_size > 3 THEN 100 + (team_size - 3) * 15 ELSE 100
            complexity_cost ==
                DecMul(DecMul(DecUnits(base_cost), base_data.complexity_multiplier),
                       complexity_factor)
            timeline_multiplier ==
                IF timeline_months < 4 THEN 14
                ELSE IF timeline_months < 6 THEN 12
                ELSE IF timeline_months > 12 THEN 9
                ELSE 10
            total_cost ==
                DecMul(DecMul(DecMul(complexity_cost, team_multiplier),
                              timeline_multiplier), 100000)
        IN  Returned(round_(total_cost, 2, "development_cost"))

\* The development cost in cents; complexity_factor in thousandths.  The
\* product of dollars, tenths, thousandths, hundredths and tenths is in 10^-7
\* dollars.
calculate_development_cost(framework, team_size, complexity_factor, timeline_months) ==
    IF framework \notin DOMAIN development_costs THEN Raised("ValueError")
    ELSE
        LET base_data == development_costs[framework]
            base_cost == base_data.base_cost
            team_multiplier ==
                Min(IF team_size > 3 THEN 100 + (team_size - 3) * 15 ELSE 100, 200)
            complexity_cost ==
                DecMul(DecMul(DecUnits(base_cost), base_data.complexity_multiplier),
                       complexity_factor)
            timeline_multiplier ==
                IF timeline_months < 4 THEN 14
                ELSE IF timeline_months < 6 THEN 12
                ELSE IF timeline_months > 12 THEN 9
                ELSE 10
            total_cost ==
                DecMul(DecMul(DecMul(complexity_cost, team_multiplier),
                              timeline_multiplier), 100000)
        IN  Returned(round_(total_cost, 2, "development_cost"))

\* The loop of _generate_cash_flow_projection from `month` on: cash_flow the
\* entries so far, cumulative_cash_flow the running total.  Amounts in 10^-3
\* dollars; monthly_savings in cents.
RECURSIVE cash_flow_loop(_, _, _, _, _, _)
cash_flow_loop(cash_flow, cumulative_cash_flow, month, initial_investment, monthly_savings, periods) ==
    IF month > periods THEN cash_flow
    ELSE IF month = 0
    THEN cash_flow_loop(
            Append(cash_flow,
                   [month |-> 0,
                    description |-> <<"Initial Development Investment">>,
                    cash_flow |-> 0 - initial_investment,
                    cumulative_cash_flow |-> cumulative_cash_flow]),
            cumulative_cash_flow, 1, initial_investment, monthly_savings, periods)
    ELSE cash_flow_loop(
            Append(cash_flow,
                   [month |-> month,
                    description |-> <<"Operational Savings Month", month>>,
                    cash_flow |-> 10 * monthly_savings,
                    cumulative_cash_flow |->
                        cumulative_cash_flow + 10 * monthly_savings]),
            cumulative_cash_flow + 10 * monthly_savings, month + 1,
            initial_investment, monthly_savings, periods)

\* Mutant of _generate_cash_flow_projection: the months from 1 on only.
_generate_cash_flow_projection_from_one(initial_investment, monthly_savings, periods) ==
    cash_flow_loop(<<>>, 0 - initial_investment, 1, initial_investment,
                   monthly_savings, periods)

\* _generate_cash_flow_projection: initial_investment in 10^-3 dollars,
\* monthly_savings in cents, the amounts of the entries in 10^-3 dollars.
_generate_cash_flow_projection(initial_investment, monthly_savings, periods) ==
    cash_flow_loop(<<>>, 0 - initial_investment, 0, initial_investment,
                   monthly_savings, periods)

payback_months_nonzero(adjusted_dev_cost, monthly_savings) ==
    IF monthly_savings # 0
    THEN LET some(quotient) == IF quotient.kind = "raise" THEN quotient
                               ELSE Returned(Some(quotient.value))
             exact == truediv(adjusted_dev_cost, 10 * monthly_savings)
         IN  some(IF adjusted_dev_cost = 0 THEN exact ELSE Inexact(exact, 0 - 1))
    ELSE Returned(None)

\* payback_months of calculate_comprehensive_roi, a quotient in months or
\* None: adjusted_dev_cost in 10^-3 dollars, monthly_savings in cents.  The
\* float monthly_savings, a difference of two costs, is its cents or a little
\* more, so that a whole quotient may come out just below; 0 / x is exact.
payback_months(adjusted_dev_cost, monthly_savings) ==
    IF monthly_savings > 0
    THEN LET some(quotient) == IF quotient.kind = "raise" THEN quotient
                               ELSE Returned(Some(quotient.value))
             exact == truediv(adjusted_dev_cost, 10 * monthly_savings)
         IN  some(IF adjusted_dev_cost = 0 THEN exact ELSE Inexact(exact, 0 - 1))
    ELSE Returned(None)

roi_percentage_unguarded(adjusted_dev_cost, total_savings) ==
    LET exact == truediv(10 * total_savings - adjusted_dev_cost, adjusted_dev_cost)
    IN  IF total_savings = 0 THEN exact ELSE Inexact(exact, 1)

\* roi_percentage of calculate_comprehensive_roi, a quotient in hundreds of
\* percent: adjusted_dev_cost in 10^-3 dollars, total_savings in cents.  With
\* the float monthly_savings a little above its cents a whole quotient may
\* come out just above; (0 - x) / x is exact.
roi_percentage(adjusted_dev_cost, total_savings) ==
    IF adjusted_dev_cost > 0
    THEN LET exact == truediv(10 * total_savings - adjusted_dev_cost,
                              adjusted_dev_cost)
         IN  IF total_savings = 0 THEN exact ELSE Inexact(exact, 1)
    ELSE Returned(Ratio(0, 1))

\* break_even_month of calculate_comprehensive_roi, for payback_months None
\* or a quotient.
break_even_month(payback) ==
    IF payback # None /\ payback[1].num # 0 /\ payback[1].num > 0
    THEN Some(int(payback[1]) + 1)
    ELSE None

\* One recommendation; its message, a formatting of the value with the same
\* category, is left out.
Recommendation(category, level, action) ==
    [category |-> category, level |-> level, action |-> action]

\* Mutant of _generate_roi_recommendations: 'Quick ROI' up to but not at 12
\* months and 'Positive Value' from an NPV of 10000 on.
_generate_roi_recommendations_shifted(monthly_savings, payback, roi, npv) ==
    <<IF payback = None \/ Below(payback[1], 0)
      THEN Recommendation("Financial Risk", "high",
                "Consider non-financial benefits or alternative frameworks")
      ELSE IF payback[1].num < 12 * payback[1].den
      THEN Recommendation("Quick ROI", "positive",
                "Strong candidate for immediate migration")
      ELSE IF ~Exceeds(payback[1], 24)
      THEN Recommendation("Moderate ROI", "neutral",
                "Consider migration if strategic benefits align")
      ELSE Recommendation("Long Payback", "cautionary",
                "Evaluate strategic benefits beyond cost savings"),
      IF npv > 5000000
      THEN Recommendation("High Value", "positive",
                "Strong financial case for migration")
      ELSE IF npv >= 1000000
      THEN Recommendation("Positive Value", "positive",
                "Financially beneficial migration")
      ELSE IF npv > 0 - 1000000
      THEN Recommendation("Break Even", "neutral",
                "Consider strategic and operational benefits")
      ELSE Recommendation("Negative Value", "cautionary",
                "Migration not recommended based on financial analysis")>>
    \o (IF Exceeds(roi, 1)
        THEN <<Recommendation("Excellent ROI", "positive",
                    "Prioritize this migration project")>>
        ELSE IF 2 * roi.num > roi.den
        THEN <<Recommendation("Good ROI", "positive",
                    "Recommend proceeding with migration")>>
        ELSE IF Exceeds(roi, 0)
        THEN <<Recommendation("Positive ROI", "neutral",
                    "Consider if strategic benefits justify investment")>>
        ELSE <<>>)

\* _generate_roi_recommendations: payback None or <<quotient in months>>,
\* roi a quotient in hundreds of percent, npv in cents.  (monthly_savings is
\* a parameter the function does not read.)
_generate_roi_recommendations(monthly_savings, payback, roi, npv) ==
    <<IF payback = None \/ Below(payback[1], 0)
      THEN Recommendation("Financial Risk", "high",
                "Consider non-financial benefits or alternative frameworks")
      ELSE IF ~Exceeds(payback[1], 12)
      THEN Recommendation("Quick ROI", "positive",
                "Strong candidate for immediate migration")
      ELSE IF ~Exceeds(payback[1], 24)
      THEN Recommendation("Moderate ROI", "neutral",
                "Consider migration if strategic benefits align")
      ELSE Recommendation("Long Payback", "cautionary",
                "Evaluate strategic benefits beyond cost savings"),
      IF npv > 5000000
      THEN Recommendation("High Value", "positive",
                "Strong financial case for migration")
      ELSE IF npv > 1000000
      THEN Recommendation("Positive Value", "positive",
                "Financially beneficial migration")
      ELSE IF npv > 0 - 1000000
      THEN Recommendation("Break Even", "neutral",
                "Consider strategic and operational benefits")
      ELSE Recommendation("Negative Value", "cautionary",
                "Migration not recommended based on financial analysis")>>
    \o (IF Exceeds(roi, 1)
        THEN <<Recommendation("Excellent ROI", "positive",
                    "Prioritize this migration project")>>
        ELSE IF 2 * roi.num > roi.den
        THEN <<Recommendation("Good ROI", "positive",
                    "Recommend proceeding with migration")>>
        ELSE IF Exceeds(roi, 0)
        THEN <<Recommendation("Positive ROI", "neutral",
                    "Consider if strategic benefits justify investment")>>
        ELSE <<>>)

\* calculate_comprehensive_roi, its cost analysis and ROI metrics: costs,
\* savings and npv in cents, development_cost (risk adjusted) in 10^-3
\* dollars, risk_factor in tenths, payback_period_months an exact quotient
\* in months, roi_percentage an exact quotient in hundreds of percent.
\* model is a ModelProvider member or any other object the caller passes.
calculate_comprehensive_roi(current_framework, target_framework, model, requests_per_month, team_size, timeline_months, analysis_period_months, complexity_factor, risk_scenario) ==
    LET current == EnumOf(Framework, current_framework)
        pricing == IF model \in DOMAIN model_pricing THEN Returned(model)
                   ELSE Raised("KeyError")
        target  == EnumOf(Framework, target_framework)
        dev_cost == calculate_development_cost(target_framework, team_size,
                                               complexity_factor, timeline_months)
        failed  == FirstRaised(<<current, pricing, target, dev_cost>>)
    IN  IF failed.kind = "raise" THEN failed
        ELSE
            LET analysis(current_costs, target_costs, development_cost) ==
                    LET risk_factor == IF risk_scenario \in DOMAIN risk_factors
                                       THEN risk_factors[risk_scenario] ELSE 10
                        adjusted_dev_cost == development_cost * risk_factor
                        monthly_savings ==
                            current_costs.total_cost - target_costs.total_cost
                        payback == payback_months(adjusted_dev_cost, monthly_savings)
                        total_savings == monthly_savings * analysis_period_months
                        roi == roi_percentage(adjusted_dev_cost, total_savings)
                    IN  IF FirstRaised(<<payback, roi>>).kind = "raise"
                        THEN FirstRaised(<<payback, roi>>)
                        ELSE
                          LET report(npv) == Returned(
                            [migration_summary |->
                                [from_framework |-> current_framework,
                                 to_framework |-> target_framework,
                                 model |-> model,
                                 requests_per_month |-> requests_per_month,
                                 analysis_period_months |-> analysis_period_months],
                             cost_analysis |->
                                [current_monthly_cost |-> current_costs.total_cost,
                                 target_monthly_cost |-> target_costs.total_cost,
                                 monthly_savings |-> monthly_savings,
                                 annual_savings |-> monthly_savings * 12,
                                 development_cost |-> adjusted_dev_cost,
                                 risk_factor |-> risk_factor],
                             roi_metrics |->
                                [payback_period_months |-> payback.value,
                                 roi_percentage |-> roi.value,
                                 npv |-> npv,
                                 break_even_month |-> break_even_month(payback.value),
                                 total_3_year_savings |->
                                    monthly_savings * analysis_period_months],
                             cash_flow_projection |->
                                _generate_cash_flow_projection(adjusted_dev_cost,
                                    monthly_savings, analysis_period_months),
                             recommendations |->
                                _generate_roi_recommendations(monthly_savings,
                                    payback.value, roi.value, npv)])
                          IN  report(_calculate_npv(adjusted_dev_cost, monthly_savings,
                                                    analysis_period_months))
            IN  analysis(calculate_monthly_cost(current.value, model,
                                                requests_per_month, None),
                         calculate_monthly_cost(target.value, model,
                                                requests_per_month, None),
                         dev_cost.value)

(***************************************************************************)
(* Inputs.                                                                 *)
(***************************************************************************)
TierBreakpoints == {1000, 10000, 100000}

RequestCounts ==
    UNION {(b - Spread)..(b + Spread) : b \in {0} \cup TierBreakpoints}

CustomTokens ==
    {None, Some(0 - 1), Some(0)} \cup {Some(TokenStep * k) : k \in 1..MaxTokenSteps}

\* Identifiers a request may name: the members and one that is none.
FrameworkTexts == Range(Framework) \cup {"llamaindex"}
ModelTexts == Range(ModelProvider) \cup {"gpt5"}

Optional(texts) == {<<>>} \cup {<<t>> : t \in texts}

RequestTexts == {Numeral(n) : n \in RequestCounts} \cup {NotANumber}

\* A request count at which AUTOGEN on OPENAI_GPT4O_MINI has an api_cost of
\* -50.00 and so a total_cost of 0; a migration is also asked for it.
ZeroTotalRequests == 0 - 64420
MigrationRequestCounts == RequestCounts \cup {ZeroTotalRequests}
MigrationRequestTexts ==
    {Numeral(n) : n \in MigrationRequestCounts} \cup {NotANumber}
TokenTexts ==
    {Numeral(t[1]) : t \in CustomTokens \ {None}} \cup {NotANumber}

\* The query of a GET request: every key the handlers read.
QueryKeys == {"framework", "model", "requests", "tokens", "from", "to"}
Query(given) == [k \in QueryKeys |-> IF k \in DOMAIN given THEN given[k] ELSE <<>>]

\* The members of a POST body and its Content-Length header: absent, the
\* body's length, or a text that is no number.
PostFrameworkTexts == Optional({"autogen", "langgraph", "llamaindex"})
PostModelTexts == Optional({"openai_gpt4o", "openai_gpt4o_mini", "gpt5"})
PostRequestTexts ==
    Optional({Numeral(0), Numeral(1000), Numeral(ZeroTotalRequests), NotANumber})
PostTokenTexts == Optional({Numeral(TokenStep), NotANumber})
BodyLength == 64
ContentLengths == Optional({Numeral(BodyLength), NotANumber})
Data(given) == [k \in QueryKeys |-> IF k \in DOMAIN given THEN given[k] ELSE <<>>]

\* Inputs of the ROI analysis.
RoiFrameworkTexts == {"autogen", "langgraph", "llamaindex"}
RoiModelTexts == {"openai_gpt4o", "gpt5"}
RoiRequestCounts == {0, 100000, 178750, 200000}
TeamSizes == {0, 5}
TimelineMonths == {0, 6}
AnalysisPeriods == {0, 35, MaxPeriods}
ComplexityFactors == {0, 1100}
RiskScenarios == {"startup", "growth", "enterprise", "research", "unlisted"}

\* Inputs of a direct call of calculate_development_cost: team sizes up to
\* and beyond the cap of the multiplier, a timeline on each side of every
\* band, complexity factors (in thousandths) with and without a product
\* below a cent.
DirectTeamSizes == {0, 3, 4, 5, 9, 10, 12}
DirectTimelineMonths == {0, 3, 4, 5, 6, 12, 13}
DirectComplexityFactors == {0, 1000, 1001, 1100}

\* Inputs of a direct call of _generate_roi_recommendations, at and beside
\* every threshold: payback periods in months, ROI in hundreds of percent,
\* NPV in cents.
PaybackPeriods ==
    {None} \cup {Some(Ratio(n, 2)) : n \in {0 - 1, 0, 1, 24, 25, 48, 49}}
RoiPercentages == {Ratio(n, 100) : n \in {0 - 100, 0, 1, 50, 51, 100, 101}}
NetPresentValues ==
    {5000001, 5000000, 1000001, 1000000, 0 - 999999, 0 - 1000000, 0 - 1000001}

\* Inputs of a direct call of _calculate_npv: investments in 10^-3 dollars
\* (some with a part below a cent), cash flows in cents, horizons in months.
InitialInvestments == {0, 5, 1000, 12345678, 42350000, 0 - 1000}
MonthlyCashFlows == {0, 5362, 0 - 5362}
Horizons == {0, 1, 12, MaxPeriods}

(***************************************************************************)
(* The state machine: a caller makes one call at a time.  The tie          *)
(* resolution is fixed for a whole behaviour; a call is taken under the    *)
(* resolutions that differ on the fields its result depends on.            *)
(***************************************************************************)
NoCall == [op |-> "none"]
NoResult == [kind |-> "none"]

Init ==
    /\ model_pricing = MODEL_PRICING
    /\ framework_metadata = FRAMEWORK_METADATA
    /\ development_costs = DEVELOPMENT_COSTS
    /\ risk_factors = RISK_FACTORS
    /\ tie \in TiePolicies
    /\ pc = "idle"
    /\ call = NoCall
    /\ result = NoResult

CalculateMonthlyCost ==
    /\ pc = "idle"
    /\ tie \in Resolutions(CostFields)
    /\ UNCHANGED <<tables, tie>>
    /\ \E f \in Range(Framework), m \in Range(ModelProvider),
          n \in RequestCounts, t \in CustomTokens :
            /\ call' = [op |-> "calculate_monthly_cost", framework |-> f, model |-> m,
                        requests_per_month |-> n, custom_tokens |-> t]
            /\ result' = Returned(calculate_monthly_cost(f, m, n, t))
    /\ pc' = "done"

CompareFrameworks_annotating ==
    /\ pc = "idle"
    /\ tie \in Resolutions(CostFields)
    /\ UNCHANGED <<model_pricing, development_costs, risk_factors, tie>>
    /\ framework_metadata' =
          [f \in DOMAIN framework_metadata |->
              [framework_metadata[f] EXCEPT !.description = "compared"]]
    /\ \E m \in ModelTexts, n \in RequestCounts,
          t \in CustomTokens \cup {StrTokens} :
            /\ call' = [op |-> "compare_frameworks", model |-> m,
                        requests_per_month |-> n, custom_tokens |-> t]
            /\ result' = compare_frameworks(m, n, t)
    /\ pc' = "done"

CompareFrameworks ==
    /\ pc = "idle"
    /\ tie \in Resolutions(CostFields)
    /\ UNCHANGED <<tables, tie>>
    /\ \E m \in ModelTexts, n \in RequestCounts,
          t \in CustomTokens \cup {StrTokens} :
            /\ call' = [op |-> "compare_frameworks", model |-> m,
                        requests_per_month |-> n, custom_tokens |-> t]
            /\ result' = compare_frameworks(m, n, t)
    /\ pc' = "done"

EstimateMigrationSavings ==
    /\ pc = "idle"
    /\ tie \in Resolutions({"total_cost", "savings_percentage"})
    /\ UNCHANGED <<tables, tie>>
    /\ \E a \in Range(Framework), b \in Range(Framework),
          m \in Range(ModelProvider), n \in MigrationRequestCounts :
            /\ call' = [op |-> "estimate_migration_savings", from_framework |-> a,
                        to_framework |-> b, model |-> m, requests_per_month |-> n]
            /\ result' = estimate_migration_savings(a, b, m, n)
    /\ pc' = "done"

\* GET /, /frameworks, /models and a path that is no endpoint.
GetInfo ==
    /\ pc = "idle"
    /\ tie \in Resolutions({})
    /\ UNCHANGED <<tables, tie>>
    /\ \E path \in {"/", "/frameworks", "/models", "/nowhere"} :
            /\ call' = [op |-> "do_GET", path |-> path, params |-> Query(<<>>)]
            /\ result' = do_GET(path, Query(<<>>))
    /\ pc' = "done"

GetCalculate ==
    /\ pc = "idle"
    /\ tie \in Resolutions(CostFields)
    /\ UNCHANGED <<tables, tie>>
    /\ \E f \in Optional(FrameworkTexts), m \in Optional(ModelTexts),
          n \in Optional(RequestTexts), t \in Optional(TokenTexts) :
        LET params == Query([framework |-> f, model |-> m, requests |-> n,
                             tokens |-> t])
        IN  /\ call' = [op |-> "do_GET", path |-> "/calculate", params |-> params]
            /\ result' = do_GET("/calculate", params)
    /\ pc' = "done"

GetCompare ==
    /\ pc = "idle"
    /\ tie \in Resolutions(CostFields)
    /\ UNCHANGED <<tables, tie>>
    /\ \E m \in Optional(ModelTexts), n \in Optional(RequestTexts),
          t \in Optional(TokenTexts) :
        LET params == Query([model |-> m, requests |-> n, tokens |-> t])
        IN  /\ call' = [op |-> "do_GET", path |-> "/compare", params |-> params]
            /\ result' = do_GET("/compare", params)
    /\ pc' = "done"

GetMigration ==
    /\ pc = "idle"
    /\ tie \in Resolutions({"total_cost", "savings_percentage"})
    /\ UNCHANGED <<tables, tie>>
    /\ \E a \in Optional(FrameworkTexts), b \in Optional(FrameworkTexts),
          m \in Optional(ModelTexts), n \in Optional(MigrationRequestTexts) :
        LET params == Query([from |-> a, to |-> b, model |-> m, requests |-> n])
        IN  /\ call' = [op |-> "do_GET", path |-> "/migration", params |-> params]
            /\ result' = do_GET("/migration", params)
    /\ pc' = "done"

\* GET with a target urlparse does not take.
GetUnparseable ==
    /\ pc = "idle"
    /\ tie \in Resolutions({})
    /\ UNCHANGED <<tables, tie>>
    /\ call' = [op |-> "do_GET", path |-> UnparseableTarget, params |-> Query(<<>>)]
    /\ result' = do_GET(UnparseableTarget, Query(<<>>))
    /\ pc' = "done"

\* POST /calculate with a JSON object and its Content-Length.
PostCalculate ==
    /\ pc = "idle"
    /\ tie \in Resolutions(CostFields)
    /\ UNCHANGED <<tables, tie>>
    /\ \E f \in PostFrameworkTexts, m \in PostModelTexts,
          n \in PostRequestTexts, t \in PostTokenTexts :
        LET body == JsonObject(Data([framework |-> f, model |-> m, requests |-> n,
                                     tokens |-> t]))
        IN  /\ call' = [op |-> "do_POST", path |-> "/calculate",
                        headers |-> <<Numeral(BodyLength)>>, body |-> body]
            /\ result' = do_POST(<<Numeral(BodyLength)>>, body, "/calculate")
    /\ pc' = "done"

PostCompare ==
    /\ pc = "idle"
    /\ tie \in Resolutions(CostFields)
    /\ UNCHANGED <<tables, tie>>
    /\ \E m \in PostModelTexts, n \in PostRequestTexts, t \in PostTokenTexts :
        LET body == JsonObject(Data([model |-> m, requests |-> n, tokens |-> t]))
        IN  /\ call' = [op |-> "do_POST", path |-> "/compare",
                        headers |-> <<Numeral(BodyLength)>>, body |-> body]
            /\ result' = do_POST(<<Numeral(BodyLength)>>, body, "/compare")
    /\ pc' = "done"

PostMigration ==
    /\ pc = "idle"
    /\ tie \in Resolutions({"total_cost", "savings_percentage"})
    /\ UNCHANGED <<tables, tie>>
    /\ \E a \in PostFrameworkTexts, b \in PostFrameworkTexts,
          m \in PostModelTexts, n \in PostRequestTexts :
        LET body == JsonObject(Data([from |-> a, to |-> b, model |-> m,
                                     requests |-> n]))
        IN  /\ call' = [op |-> "do_POST", path |-> "/migration",
                        headers |-> <<Numeral(BodyLength)>>, body |-> body]
            /\ result' = do_POST(<<Numeral(BodyLength)>>, body, "/migration")
    /\ pc' = "done"

\* POST with any Content-Length header, a body that is no JSON object or an
\* object without members, and any target.
PostMalformed ==
    /\ pc = "idle"
    /\ tie \in Resolutions({})
    /\ UNCHANGED <<tables, tie>>
    /\ \E headers \in ContentLengths,
          body \in {InvalidJson, JsonArray, JsonObject(Data(<<>>))},
          path \in {"/calculate", "/compare", "/migration", "/nowhere",
                    UnparseableTarget} :
            /\ call' = [op |-> "do_POST", path |-> path, headers |-> headers,
                        body |-> body]
            /\ result' = do_POST(headers, body, path)
    /\ pc' = "done"

\* POST /api/calculate of the web application.
AppCalculate ==
    /\ pc = "idle"
    /\ tie \in Resolutions(CostFields)
    /\ UNCHANGED <<tables, tie>>
    /\ \E f \in Optional(FrameworkTexts), m \in Optional(ModelTexts),
          n \in Optional(RequestTexts), t \in Optional(TokenTexts) :
        LET data == [framework |-> f, model |-> m, requests_per_month |-> n,
                     custom_tokens |-> t]
        IN  /\ call' = [op |-> "calculate_costs", data |-> data]
            /\ result' = calculate_costs(data)
    /\ pc' = "done"

CalculateComprehensiveRoi ==
    /\ pc = "idle"
    /\ tie \in Resolutions(RoiFields)
    /\ UNCHANGED <<tables, tie>>
    /\ \E a \in RoiFrameworkTexts, b \in RoiFrameworkTexts, m \in RoiModelTexts,
          n \in RoiRequestCounts, team \in TeamSizes, months \in TimelineMonths,
          period \in AnalysisPeriods, complexity \in ComplexityFactors,
          risk \in RiskScenarios :
            /\ call' = [op |-> "calculate_comprehensive_roi",
                        current_framework |-> a, target_framework |-> b,
                        model |-> m, requests_per_month |-> n, team_size |-> team,
                        timeline_months |-> months,
                        analysis_period_months |-> period,
                        complexity_factor |-> complexity, risk_scenario |-> risk]
            /\ result' = calculate_comprehensive_roi(a, b, m, n, team, months,
                                                     period, complexity, risk)
    /\ pc' = "done"

\* A direct call of calculate_development_cost.
CalculateDevelopmentCost ==
    /\ pc = "idle"
    /\ tie \in Resolutions({"development_cost"})
    /\ UNCHANGED <<tables, tie>>
    /\ \E f \in FrameworkTexts, team \in DirectTeamSizes,
          complexity \in DirectComplexityFactors,
          months \in DirectTimelineMonths :
            /\ call' = [op |-> "calculate_development_cost", framework |-> f,
                        team_size |-> team, complexity_factor |-> complexity,
                        timeline_months |-> months]
            /\ result' = calculate_development_cost(f, team, complexity, months)
    /\ pc' = "done"

\* A direct call of _generate_roi_recommendations.
GenerateRoiRecommendations ==
    /\ pc = "idle"
    /\ tie \in Resolutions({})
    /\ UNCHANGED <<tables, tie>>
    /\ \E savings \in MonthlyCashFlows, payback \in PaybackPeriods,
          roi \in RoiPercentages, npv \in NetPresentValues :
            /\ call' = [op |-> "_generate_roi_recommendations",
                        monthly_savings |-> savings, payback_months |-> payback,
                        roi_percentage |-> roi, npv |-> npv]
            /\ result' = Returned(_generate_roi_recommendations(savings, payback,
                                                                roi, npv))
    /\ pc' = "done"

\* A direct call of _generate_cash_flow_projection.
GenerateCashFlowProjection ==
    /\ pc = "idle"
    /\ tie \in Resolutions({})
    /\ UNCHANGED <<tables, tie>>
    /\ \E investment \in InitialInvestments, savings \in MonthlyCashFlows,
          periods \in Horizons \cup {0 - 1} :
            /\ call' = [op |-> "_generate_cash_flow_projection",
                        initial_investment |-> investment,
                        monthly_savings |-> savings, periods |-> periods]
            /\ result' = Returned(_generate_cash_flow_projection(investment, savings,
                                                                 periods))
    /\ pc' = "done"

CalculateNpv ==
    /\ pc = "idle"
    /\ tie \in Resolutions({"npv"})
    /\ UNCHANGED <<tables, tie>>
    /\ \E investment \in InitialInvestments, flow \in MonthlyCashFlows,
          periods \in Horizons :
            /\ call' = [op |-> "_calculate_npv", initial_investment |-> investment,
                        monthly_cash_flow |-> flow, periods |-> periods]
            /\ result' = Returned(_calculate_npv(investment, flow, periods))
    /\ pc' = "done"

\* The caller takes the result; the next call starts from the tables alone.
Return ==
    /\ pc = "done"
    /\ pc' = "idle"
    /\ call' = NoCall
    /\ result' = NoResult
    /\ UNCHANGED <<tables, tie>>

Next ==
    \/ CalculateMonthlyCost
    \/ CompareFrameworks
    \/ EstimateMigrationSavings
    \/ GetInfo
    \/ GetCalculate
    \/ GetCompare
    \/ GetMigration
    \/ GetUnparseable
    \/ PostCalculate
    \/ PostCompare
    \/ PostMigration
    \/ PostMalformed
    \/ AppCalculate
    \/ CalculateComprehensiveRoi
    \/ CalculateDevelopmentCost
    \/ GenerateRoiRecommendations
    \/ GenerateCashFlowProjection
    \/ CalculateNpv
    \/ Return

Spec == Init /\ [][Next]_vars

(***************************************************************************)
(* Properties.                                                             *)
(***************************************************************************)
Done(op) == pc = "done" /\ call.op = op

\* The arguments the specification calls valid: a positive request count
\* and, when a custom token count is given, a positive one.
PositiveRequests == call.requests_per_month > 0
PositiveTokens ==
    \/ call.custom_tokens = None
    \/ ~IsStr(call.custom_tokens) /\ call.custom_tokens[1] > 0

\* The model is a member of ModelProvider.
KnownModel == call.model \in Range(ModelProvider)

\* C1: for every framework, model and positive requests_per_month, with or
\* without a custom token count, the total_cost that calculate_monthly_cost
\* returns is the sum of the api_cost, infrastructure_cost and
\* monitoring_cost it returns.
C1_TotalIsSumOfReturnedCosts ==
    (Done("calculate_monthly_cost") /\ PositiveRequests /\ PositiveTokens) =>
        result.value.total_cost =
            result.value.api_cost + result.value.infrastructure_cost
            + result.value.monitoring_cost

\* C2: for every model, positive requests_per_month and optional custom token
\* count, compare_frameworks returns each of the five framework ids exactly
\* once, in ascending order of total_cost.
C2_CompareSortedAndComplete ==
    (Done("compare_frameworks") /\ KnownModel /\ PositiveRequests /\ PositiveTokens) =>
        /\ result.kind = "ok"
        /\ Len(result.value) = Len(Framework)
        /\ {result.value[i][1] : i \in DOMAIN result.value} = Range(Framework)
        /\ \A i \in 1..(Len(result.value) - 1) :
              result.value[i][2].total_cost <= result.value[i + 1][2].total_cost

\* C2 witness: a comparison whose order is not the declaration order, so the
\* sort has moved an entry.
C2_Witness ==
    /\ Done("compare_frameworks") /\ KnownModel /\ PositiveRequests /\ PositiveTokens
    /\ call.custom_tokens # None
    /\ result.value[1][1] = "semantic_kernel"
    /\ result.value[1][2].total_cost < result.value[2][2].total_cost

\* C3: for a fixed framework, model and custom token count, total_cost never
\* decreases when requests_per_month grows from one positive count to
\* another, the tier breakpoints included.
C3_TotalMonotoneInRequests ==
    (Done("calculate_monthly_cost") /\ PositiveRequests /\ PositiveTokens) =>
        \A n2 \in RequestCounts :
            call.requests_per_month <= n2 =>
                result.value.total_cost <=
                    calculate_monthly_cost(call.framework, call.model, n2,
                                           call.custom_tokens).total_cost

\* C3 witness: a call just below a tier breakpoint, whose total is strictly
\* below the total at the breakpoint.
C3_Witness ==
    /\ Done("calculate_monthly_cost") /\ PositiveTokens
    /\ call.requests_per_month = 9999
    /\ result.value.total_cost <
          calculate_monthly_cost(call.framework, call.model, 10000,
                                 call.custom_tokens).total_cost

\* C4: migration symmetry: the monthly_savings of migrating from A to B is
\* the negation of the monthly_savings of migrating from B to A, for every
\* model and positive requests_per_month.
C4_MigrationSymmetry ==
    (Done("estimate_migration_savings") /\ PositiveRequests) =>
        LET back == estimate_migration_savings(call.to_framework, call.from_framework,
                                               call.model, call.requests_per_month)
        IN  /\ result.kind = "ok"
            /\ back.kind = "ok"
            /\ result.value.monthly_savings = 0 - back.value.monthly_savings

\* C4 witness: a migration between two frameworks that costs more.
C4_Witness ==
    /\ Done("estimate_migration_savings") /\ PositiveRequests
    /\ call.from_framework # call.to_framework
    /\ result.kind = "ok"
    /\ result.value.monthly_savings < 0

\* C5: a migration from a framework to itself reports monthly_savings,
\* annual_savings and savings_percentage of 0 and equal current and new
\* monthly costs.
C5_SelfMigrationIsZero ==
    (Done("estimate_migration_savings") /\ PositiveRequests
        /\ call.from_framework = call.to_framework) =>
            /\ result.kind = "ok"
            /\ result.value.monthly_savings = 0
            /\ result.value.annual_savings = 0
            /\ result.value.savings_percentage = 0
            /\ result.value.current_monthly_cost = result.value.new_monthly_cost

\* C5 witness: a self-migration at a request count above the last breakpoint.
C5_Witness ==
    /\ Done("estimate_migration_savings")
    /\ call.from_framework = call.to_framework
    /\ call.requests_per_month > 100000
    /\ result.kind = "ok"
    /\ result.value.current_monthly_cost > 0

\* C6: calculate_monthly_cost(AUTOGEN, OPENAI_GPT4O, 10000) without custom
\* tokens uses 2100 tokens at overhead 1.12 and a blended price of 11 per
\* million, costs 0.025872 per request, and returns api_cost 258.72,
\* infrastructure_cost 320, monitoring_cost 125, total_cost 703.72 and
\* cost_per_request 0.0259.
C6_AutogenExample ==
    (Done("calculate_monthly_cost")
        /\ call.framework = "autogen" /\ call.model = "openai_gpt4o"
        /\ call.requests_per_month = 10000 /\ call.custom_tokens = None) =>
            /\ framework_metadata["autogen"].avg_tokens_per_request = 2100
            /\ framework_metadata["autogen"].overhead_multiplier = 112
            /\ average_cost(model_pricing["openai_gpt4o"]) = 11 * 1000
            /\ calculate_cost_per_request("autogen", "openai_gpt4o", None)
                  = DecMul(DecMul(DecUnits(25872), 1000), 1000)
            /\ result.value = [api_cost |-> 25872, infrastructure_cost |-> 32000,
                               monitoring_cost |-> 12500, total_cost |-> 70372,
                               cost_per_request |-> 259]

\* C6 witness: the example call has returned.
C6_Witness ==
    /\ Done("calculate_monthly_cost")
    /\ call.framework = "autogen" /\ call.model = "openai_gpt4o"
    /\ call.requests_per_month = 10000 /\ call.custom_tokens = None
    /\ result.kind = "ok"

\* The tiers as the specification states them: infrastructure in 10^-4
\* dollars, monitoring in dollars.
TierInfrastructure(n) ==
    CASE n < 1000                  -> 350000
      [] 1000 <= n /\ n < 10000    -> 850000 + 100 * (n - 1000)
      [] 10000 <= n /\ n < 100000  -> 3200000 + 50 * (n - 10000)
      [] n >= 100000               -> 8500000 + 20 * (n - 100000)

TierMonitoring(n) ==
    CASE n < 1000                  -> 15
      [] 1000 <= n /\ n < 10000    -> 45
      [] 10000 <= n /\ n < 100000  -> 125
      [] n >= 100000               -> 250

\* C7: a tier boundary belongs to the upper tier: infrastructure cost is 35
\* below 1000 requests, 85 + 0.01 (n - 1000) from 1000, 320 + 0.005 (n - 10000)
\* from 10000 and 850 + 0.002 (n - 100000) from 100000; monitoring cost is
\* 15 / 45 / 125 / 250 on the same ranges; and the returned costs are these,
\* rounded to cents.
C7_TierBoundaries ==
    Done("calculate_monthly_cost") =>
        LET n == call.requests_per_month
            infra == TierInfrastructure(n)
        IN  /\ _estimate_infrastructure_cost(n) = infra
            /\ _estimate_monitoring_cost(n) = TierMonitoring(n)
            /\ result.value.monitoring_cost = 100 * TierMonitoring(n)
            /\ infra % 100 = 0 => result.value.infrastructure_cost = infra \div 100
            /\ result.value.infrastructure_cost \in
                  {infra \div 100, infra \div 100 + 1}
            /\ n = 999 => result.value.infrastructure_cost = 3500
            /\ n = 1000 => result.value.infrastructure_cost = 8500

\* C7 witness: a call at the first breakpoint, billed in the upper tier.
C7_Witness ==
    /\ Done("calculate_monthly_cost")
    /\ call.requests_per_month = 1000
    /\ result.value.infrastructure_cost = 8500
    /\ result.value.monitoring_cost = 4500

\* A request parameter that is a numeral of a non-positive number.
NonPositiveItem(params, key) ==
    params[key] # <<>> /\ params[key][1].numeric /\ params[key][1].value <= 0

\* C8: calculate_monthly_cost, and the HTTP and web endpoints that call it,
\* fail with an invalid-parameter error and return no cost breakdown whenever
\* requests_per_month is not positive or a custom token count that is given
\* is not positive.
C8_NonPositiveRejected ==
    /\ (Done("calculate_monthly_cost") /\ ~(PositiveRequests /\ PositiveTokens)) =>
            result.kind = "raise"
    /\ (/\ Done("do_GET")
        /\ call.path = "/calculate"
        /\ \/ NonPositiveItem(call.params, "requests")
           \/ NonPositiveItem(call.params, "tokens")) =>
            result.status = 400
    /\ (/\ Done("calculate_costs")
        /\ \/ NonPositiveItem(call.data, "requests_per_month")
           \/ NonPositiveItem(call.data, "custom_tokens")) =>
            result.status = 400

\* A request parameter that names an identifier outside the enumeration.
UnknownItem(members, params, key) ==
    params[key] # <<>> /\ params[key][1] \notin Range(members)

\* The identifiers a request names, by endpoint.
NamesUnknownId ==
    \/ /\ Done("do_GET")
       /\ \/ /\ call.path = "/calculate"
             /\ \/ UnknownItem(Framework, call.params, "framework")
                \/ UnknownItem(ModelProvider, call.params, "model")
          \/ /\ call.path = "/compare"
             /\ UnknownItem(ModelProvider, call.params, "model")
          \/ /\ call.path = "/migration"
             /\ \/ UnknownItem(Framework, call.params, "from")
                \/ UnknownItem(Framework, call.params, "to")
                \/ UnknownItem(ModelProvider, call.params, "model")
    \/ /\ Done("calculate_costs")
       /\ \/ UnknownItem(Framework, call.data, "framework")
          \/ UnknownItem(ModelProvider, call.data, "model")

RoiNamesUnknownId ==
    /\ Done("calculate_comprehensive_roi")
    /\ \/ call.current_framework \notin Range(Framework)
       \/ call.target_framework \notin Range(Framework)
       \/ call.model \notin Range(ModelProvider)

\* C9: a calculate, compare, migration or ROI request that names a framework
\* id or a model id outside the enumerations fails with an error: status 400
\* and an error body at the HTTP boundary, an exception from
\* calculate_comprehensive_roi; it never produces a cost result.
C9_UnknownIdRejected ==
    /\ NamesUnknownId =>
        /\ result.kind = "response"
        /\ result.status = 400
        /\ "error" \in DOMAIN result.body
        /\ DOMAIN result.body \subseteq {"error", "success"}
    /\ RoiNamesUnknownId =>
        /\ result.kind = "raise"
        /\ result.exc \in {"ValueError", "KeyError"}

\* C9 witness: a calculate request that is valid but for its framework id,
\* answered with status 400.
C9_Witness ==
    /\ Done("do_GET")
    /\ call.path = "/calculate"
    /\ call.params["framework"] = <<"llamaindex">>
    /\ call.params["model"] = <<"openai_gpt4o">>
    /\ call.params["requests"] = <<Numeral(1000)>>
    /\ call.params["tokens"] = <<>>
    /\ result.status = 400

\* The token count the specification prescribes: the custom count when one
\* is given, the framework's average otherwise.
PrescribedCostPerRequest ==
    LET framework_data == framework_metadata[call.framework]
        tokens == IF call.custom_tokens # None THEN call.custom_tokens[1]
                  ELSE framework_data.avg_tokens_per_request
    IN  DecMul(DecMul(DecMul(DecUnits(tokens), framework_data.overhead_multiplier),
                      average_cost(model_pricing[call.model])), 10)

\* C10: whenever a custom token count is given to calculate_monthly_cost,
\* that count, and not the framework's avg_tokens_per_request, is the token
\* count multiplied by the overhead multiplier; the average is used only
\* when no custom token count is given.
C10_CustomTokensUsed ==
    Done("calculate_monthly_cost") =>
        /\ result.value.cost_per_request =
              round_(PrescribedCostPerRequest, 4, "cost_per_request")
        /\ result.value.api_cost =
              round_(DecMul(PrescribedCostPerRequest, call.requests_per_month),
                     2, "api_cost")

\* C11: every cost breakdown that calculate_monthly_cost returns has api_cost,
\* infrastructure_cost, monitoring_cost, total_cost and cost_per_request all
\* greater than or equal to 0.
C11_BreakdownNonNegative ==
    (Done("calculate_monthly_cost") /\ result.kind = "ok") =>
        /\ result.value.api_cost >= 0
        /\ result.value.infrastructure_cost >= 0
        /\ result.value.monitoring_cost >= 0
        /\ result.value.total_cost >= 0
        /\ result.value.cost_per_request >= 0

ComparedOutcomes ==
    [i \in DOMAIN Framework |->
        try_calculate_monthly_cost(Framework[i], call.model,
                                   call.requests_per_month, call.custom_tokens)]

\* POST /compare for a known model and a request count, with a string as
\* the token count: every cost computation of the comparison fails.
PostCompareOfTextTokens ==
    /\ Done("do_POST") /\ call.path = "/compare"
    /\ call.headers = <<Numeral(BodyLength)>>
    /\ call.body.json = "object"
    /\ call.body.data["model"] # <<>>
    /\ call.body.data["model"][1] \in Range(ModelProvider)
    /\ call.body.data["requests"] # <<>>
    /\ call.body.data["requests"][1].numeric
    /\ call.body.data["tokens"] = <<NotANumber>>

\* C13: compare_frameworks is all-or-nothing: if the cost computation of any
\* one framework fails, the whole comparison fails with that same error and
\* no partial set of framework results is returned.
C13_CompareAllOrNothing ==
    /\ Done("compare_frameworks") =>
        \A i \in DOMAIN Framework :
            (/\ ComparedOutcomes[i].kind = "raise"
             /\ \A j \in 1..(i - 1) : ComparedOutcomes[j].kind = "ok") =>
                /\ result = ComparedOutcomes[i]
                /\ "value" \notin DOMAIN result
    /\ PostCompareOfTextTokens => result = Response(500, [error |-> "TypeError"])

\* C13 witness: a comparison for a model the pricing table lacks has failed
\* with the KeyError of the lookup.
C13_Witness ==
    /\ Done("compare_frameworks")
    /\ ~KnownModel
    /\ call.requests_per_month > 0
    /\ result = Raised("KeyError")

\* The position of a framework id in the enumeration's declaration order.
DeclarationIndex(id) == CHOOSE i \in DOMAIN Framework : Framework[i] = id

\* C14: frameworks of equal total_cost appear in the result of
\* compare_frameworks in the declaration order of the Framework enumeration
\* (autogen, crewai, langchain, langgraph, semantic_kernel).
C14_EqualTotalsInDeclarationOrder ==
    (Done("compare_frameworks") /\ result.kind = "ok") =>
        /\ Framework = <<"autogen", "crewai", "langchain", "langgraph",
                         "semantic_kernel">>
        /\ \A i, j \in DOMAIN result.value :
              (i < j /\ result.value[i][2].total_cost = result.value[j][2].total_cost)
                  => DeclarationIndex(result.value[i][1])
                        < DeclarationIndex(result.value[j][1])

\* C14 witness: a comparison for a positive request count in which crewai
\* and langchain cost the same and a cheaper framework declared after them
\* comes first.
C14_Witness ==
    /\ Done("compare_frameworks") /\ result.kind = "ok"
    /\ call.requests_per_month > 0
    /\ result.value[1][1] = "semantic_kernel"
    /\ \E i \in 1..(Len(result.value) - 1) :
          /\ result.value[i][1] = "crewai"
          /\ result.value[i + 1][1] = "langchain"
          /\ result.value[i][2].total_cost = result.value[i + 1][2].total_cost

\* The ROI analysis a call of calculate_comprehensive_roi returned.
RoiReturned == Done("calculate_comprehensive_roi") /\ result.kind = "ok"

\* The exact value a float quotient is at or beside.
Exactly(q) == [q EXCEPT !.off = 0]

\* C15: payback_period_months is null exactly when monthly_savings is not
\* positive; otherwise it is the risk adjusted development cost divided by
\* monthly_savings; the analysis never divides by a zero or negative saving.
C15_PaybackNullOrQuotient ==
    /\ Done("calculate_comprehensive_roi") => result # Raised("ZeroDivisionError")
    /\ RoiReturned =>
        LET cost_analysis == result.value.cost_analysis
            payback == result.value.roi_metrics.payback_period_months
        IN  /\ (payback = None) <=> (cost_analysis.monthly_savings <= 0)
            /\ cost_analysis.monthly_savings > 0 =>
                /\ payback # None
                /\ Exactly(payback[1]) = Ratio(cost_analysis.development_cost,
                                               10 * cost_analysis.monthly_savings)
                /\ payback[1].den > 0

\* C15 witness: a migration that saves money and costs money, whose payback
\* period is a positive number of months.
C15_Witness ==
    /\ RoiReturned
    /\ result.value.cost_analysis.monthly_savings > 0
    /\ result.value.cost_analysis.development_cost > 0
    /\ result.value.roi_metrics.payback_period_months # None
    /\ result.value.roi_metrics.payback_period_months[1].num > 0

\* C16: roi_percentage is ((monthly_savings * horizon - development cost) /
\* development cost) * 100 when the risk adjusted development cost is
\* positive; when it is 0 the analysis returns the sentinel 0 and neither
\* divides by zero nor fails.
C16_RoiPercentageOrSentinel ==
    /\ (/\ Done("calculate_comprehensive_roi")
        /\ call.current_framework \in Range(Framework)
        /\ call.target_framework \in Range(Framework)
        /\ call.model \in Range(ModelProvider)) => result.kind = "ok"
    /\ RoiReturned =>
        LET cost_analysis == result.value.cost_analysis
            roi == result.value.roi_metrics.roi_percentage
        IN  /\ cost_analysis.development_cost > 0 =>
                Exactly(roi) = Ratio(10 * cost_analysis.monthly_savings
                               * call.analysis_period_months
                            - cost_analysis.development_cost,
                            cost_analysis.development_cost)
            /\ cost_analysis.development_cost = 0 => roi = Ratio(0, 1)

\* C16 witness: a migration with a development cost of 0 that changes the
\* monthly cost over a horizon of several months, and has an roi_percentage
\* of 0.
C16_Witness ==
    /\ RoiReturned
    /\ result.value.cost_analysis.development_cost = 0
    /\ result.value.cost_analysis.monthly_savings # 0
    /\ call.analysis_period_months > 0
    /\ result.value.roi_metrics.roi_percentage.num = 0

\* A direct call of _calculate_npv without a monthly cash flow.
NpvWithoutCashFlow == Done("_calculate_npv") /\ call.monthly_cash_flow = 0

\* C17 as stated: _calculate_npv(0, 0, 36) returns 0, and with a monthly cash
\* flow of zero the NPV equals minus the initial investment for every
\* horizon (the NPV in cents, the investment in 10^-3 dollars).
C17_NpvIsMinusInvestment ==
    NpvWithoutCashFlow => 10 * result.value = 0 - call.initial_investment

\* C17 as amended: _calculate_npv(0, 0, 36) returns 0, and with a monthly cash
\* flow of zero the NPV equals minus the initial investment rounded to
\* cents, for every horizon: it is within half a cent of the investment and
\* equal to it when the investment is a whole number of cents.
C17_NpvIsMinusRoundedInvestment ==
    NpvWithoutCashFlow =>
        /\ Abs(10 * result.value + call.initial_investment) <= 5
        /\ call.initial_investment % 10 = 0 =>
              10 * result.value = 0 - call.initial_investment
        /\ call.initial_investment = 0 => result.value = 0

\* C17 witness: the NPV of an investment of 12345.678 without a cash flow
\* over the longest horizon is -12345.68.
C17_Witness ==
    /\ NpvWithoutCashFlow
    /\ call.initial_investment = 12345678
    /\ call.periods = MaxPeriods
    /\ result.value = 0 - 1234568

\* A call of calculate_comprehensive_roi with a numeric argument that is not
\* positive.
RoiNonPositiveArgument ==
    /\ Done("calculate_comprehensive_roi")
    /\ \/ call.requests_per_month <= 0
       \/ call.team_size <= 0
       \/ call.timeline_months <= 0
       \/ call.analysis_period_months <= 0
       \/ call.complexity_factor <= 0

\* C18: calculate_comprehensive_roi returns no result, it fails with an
\* invalid-parameter error, when requests_per_month, team_size,
\* timeline_months, analysis_period_months or complexity_factor is <= 0.
C18_RoiRejectsNonPositive ==
    RoiNonPositiveArgument =>
        /\ result.kind = "raise"
        /\ (/\ call.current_framework \in Range(Framework)
            /\ call.target_framework \in Range(Framework)
            /\ call.model \in Range(ModelProvider)) => result.exc = "ValueError"

\* The tables are as the constructors built them.
TablesAsConstructed ==
    /\ model_pricing = MODEL_PRICING
    /\ framework_metadata = FRAMEWORK_METADATA
    /\ development_costs = DEVELOPMENT_COSTS
    /\ risk_factors = RISK_FACTORS

\* C19: the core is stateless.  After any sequence of calls (of
\* calculate_monthly_cost, compare_frameworks, estimate_migration_savings,
\* calculate_development_cost and every other operation) MODEL_PRICING,
\* FRAMEWORK_METADATA and the analyzer's development-cost and risk tables
\* are as constructed, nothing of a call is left when the next one starts,
\* and what a call returned is what its arguments alone determine.
C19_CoreIsStateless ==
    /\ TablesAsConstructed
    /\ pc = "idle" => call = NoCall /\ result = NoResult
    /\ Done("calculate_monthly_cost") =>
          result = Returned(calculate_monthly_cost(call.framework, call.model,
                                call.requests_per_month, call.custom_tokens))
    /\ Done("compare_frameworks") =>
          result = compare_frameworks(call.model, call.requests_per_month,
                                      call.custom_tokens)
    /\ Done("estimate_migration_savings") =>
          result = estimate_migration_savings(call.from_framework,
                        call.to_framework, call.model, call.requests_per_month)
    /\ Done("calculate_development_cost") =>
          result = calculate_development_cost(call.framework, call.team_size,
                        call.complexity_factor, call.timeline_months)

\* C19 witness: a direct call of calculate_development_cost has returned a
\* cost and the four tables are as constructed.
C19_Witness ==
    /\ Done("calculate_development_cost")
    /\ result.kind = "ok" /\ result.value > 0
    /\ TablesAsConstructed

\* A request CostCalculatorAPI has handled.
Handled == Done("do_GET") \/ Done("do_POST")

\* C20: every GET or POST request handled by CostCalculatorAPI is answered
\* with exactly one JSON response: status 200 with the result, or status
\* 400, 404 or 500 with an 'error' message; no failure inside the handling
\* leaves the request without a response.
C20_EveryRequestAnsweredOnce ==
    Handled =>
        /\ result.kind = "response"
        /\ result.status \in {200, 400, 404, 500}
        /\ result.status # 200 => "error" \in DOMAIN result.body

\* Requests that fail before the try of their handler: a POST whose
\* Content-Length is absent or no number, a GET whose target urlparse
\* rejects.
FailsBeforeTry ==
    \/ Done("do_POST") /\ content_length(call.headers).kind = "raise"
    \/ Done("do_GET") /\ call.path = UnparseableTarget

\* Every other request is answered as C20 says; these are answered by
\* nothing.
AnsweredUnlessFailsBeforeTry ==
    /\ (Handled /\ ~FailsBeforeTry) =>
        /\ result.kind = "response"
        /\ result.status \in {200, 400, 404, 500}
        /\ result.status # 200 => "error" \in DOMAIN result.body
    /\ FailsBeforeTry => result.kind = "raise"

\* The sign of an integer: -1, 0 or 1.
Sign(x) == IF x < 0 THEN 0 - 1 ELSE IF x > 0 THEN 1 ELSE 0

\* The record a call of estimate_migration_savings returned.
MigrationReturned == Done("estimate_migration_savings") /\ result.kind = "ok"

\* C21 as stated: the record returned by estimate_migration_savings has
\* monthly_savings = current_monthly_cost - new_monthly_cost, annual_savings
\* = 12 * monthly_savings, and a savings_percentage of the same sign as
\* monthly_savings.
C21_MigrationRecordIdentities ==
    MigrationReturned =>
        /\ result.value.monthly_savings =
              result.value.current_monthly_cost - result.value.new_monthly_cost
        /\ result.value.annual_savings = 12 * result.value.monthly_savings
        /\ Sign(result.value.savings_percentage) = Sign(result.value.monthly_savings)

\* C21 as amended: monthly_savings = current_monthly_cost - new_monthly_cost,
\* annual_savings = 12 * monthly_savings, and savings_percentage, the
\* quotient monthly_savings / current_monthly_cost in percent rounded to one
\* decimal, is 0 or has the sign of that quotient: for a positive current
\* cost it never has the sign opposite to monthly_savings, and it is 0 when
\* monthly_savings is 0.
C21_MigrationRecordRounded ==
    MigrationReturned =>
        /\ result.value.monthly_savings =
              result.value.current_monthly_cost - result.value.new_monthly_cost
        /\ result.value.annual_savings = 12 * result.value.monthly_savings
        /\ Sign(result.value.savings_percentage) \in
              {0, Sign(result.value.monthly_savings)
                    * Sign(result.value.current_monthly_cost)}
        /\ Abs(result.value.monthly_savings) * 2000
              >= Abs(result.value.current_monthly_cost) + 1
                  => result.value.savings_percentage # 0

\* C21 witness: a migration for a positive request count that saves a cent
\* a month and reports a savings_percentage of 0.
C21_Witness ==
    /\ MigrationReturned /\ PositiveRequests
    /\ result.value.monthly_savings = 1
    /\ result.value.annual_savings = 12
    /\ result.value.current_monthly_cost > 0
    /\ result.value.savings_percentage = 0

\* A direct call of _generate_cash_flow_projection for a horizon of at least
\* one month.
ProjectionReturned ==
    Done("_generate_cash_flow_projection") /\ call.periods >= 1

StatedTeamMultiplier(team_size) ==
    IF team_size <= 3 THEN 100 ELSE Min(200, 100 + 15 * (team_size - 3))

StatedTimelineMultiplier(timeline_months) ==
    IF timeline_months < 4 THEN 14
    ELSE IF timeline_months < 6 THEN 12
    ELSE IF timeline_months <= 12 THEN 10
    ELSE 9

\* base_cost * complexity multiplier * complexity_factor * team multiplier *
\* timeline multiplier for the call under way, in twentieths of a cent (the
\* base costs are multiples of 5000 dollars).
StatedDevelopmentCost ==
    (development_costs[call.framework].base_cost \div 5000)
        * development_costs[call.framework].complexity_multiplier
        * call.complexity_factor
        * StatedTeamMultiplier(call.team_size)
        * StatedTimelineMultiplier(call.timeline_months)

\* A direct call of calculate_development_cost for a framework of the table.
DevelopmentCostReturned ==
    /\ Done("calculate_development_cost")
    /\ call.framework \in DOMAIN development_costs

\* The team multiplier lies in [1.0, 2.0] and the cost never decreases as
\* team_size grows.
TeamMultiplierBounded ==
    /\ StatedTeamMultiplier(call.team_size) \in 100..200
    /\ calculate_development_cost(call.framework, call.team_size + 1,
            call.complexity_factor, call.timeline_months).value >= result.value

\* C23 as stated: calculate_development_cost returns base_cost * complexity
\* multiplier * complexity_factor * team multiplier * timeline multiplier,
\* the team multiplier 1.0 up to team_size 3 and min(2.0, 1 + 0.15 *
\* (team_size - 3)) beyond, the timeline multiplier 1.4, 1.2, 1.0 or 0.9 by
\* band.
C23_DevelopmentCostIsProduct ==
    DevelopmentCostReturned =>
        /\ result.kind = "ok"
        /\ development_costs[call.framework].base_cost % 5000 = 0
        /\ 20 * result.value = StatedDevelopmentCost
        /\ TeamMultiplierBounded

\* C23 as amended: calculate_development_cost returns that product rounded
\* to cents: within half a cent of it, and equal to it when the product is a
\* whole number of cents.
C23_DevelopmentCostIsRoundedProduct ==
    DevelopmentCostReturned =>
        /\ result.kind = "ok"
        /\ development_costs[call.framework].base_cost % 5000 = 0
        /\ Abs(20 * result.value - StatedDevelopmentCost) <= 10
        /\ StatedDevelopmentCost % 20 = 0 => 20 * result.value = StatedDevelopmentCost
        /\ TeamMultiplierBounded

\* C23 witness: a team of more than 3, a timeline of less than 4 months and
\* a complexity factor that leaves a part below a cent.
C23_Witness ==
    /\ DevelopmentCostReturned
    /\ call.team_size > 3 /\ call.timeline_months < 4
    /\ StatedDevelopmentCost % 20 # 0
    /\ result.kind = "ok" /\ result.value > 0

\* The risk multipliers C24 states, in tenths.
StatedRiskMultiplier(tag) ==
    CASE tag = "startup"    -> 13
      [] tag = "growth"     -> 11
      [] tag = "enterprise" -> 9
      [] tag = "research"   -> 12

\* An analysis returned for one of the four risk tags.
RoiReturnedForTag ==
    /\ RoiReturned
    /\ call.risk_scenario \in {"startup", "growth", "enterprise", "research"}

\* C24: the development cost calculate_comprehensive_roi reports, and uses
\* for payback, NPV, ROI and the cash-flow projection, is the result of
\* calculate_development_cost multiplied by the risk multiplier of the tag:
\* 1.3 for startup, 1.1 for growth, 0.9 for enterprise, 1.2 for research.
C24_RiskAdjustedDevelopmentCost ==
    RoiReturnedForTag =>
        LET adjusted ==
                calculate_development_cost(call.target_framework, call.team_size,
                    call.complexity_factor, call.timeline_months).value
                * StatedRiskMultiplier(call.risk_scenario)
            cost_analysis == result.value.cost_analysis
            roi_metrics == result.value.roi_metrics
        IN  /\ cost_analysis.risk_factor = StatedRiskMultiplier(call.risk_scenario)
            /\ cost_analysis.development_cost = adjusted
            /\ roi_metrics.payback_period_months =
                  payback_months(adjusted, cost_analysis.monthly_savings).value
            /\ roi_metrics.npv =
                  _calculate_npv(adjusted, cost_analysis.monthly_savings,
                                 call.analysis_period_months)
            /\ roi_metrics.roi_percentage =
                  roi_percentage(adjusted, cost_analysis.monthly_savings
                                              * call.analysis_period_months).value
            /\ result.value.cash_flow_projection[1].cash_flow = 0 - adjusted

\* C24 witness: an analysis for the enterprise tag, whose development cost
\* is nine tenths of the estimate.
C24_Witness ==
    /\ RoiReturnedForTag
    /\ call.risk_scenario = "enterprise"
    /\ result.value.cost_analysis.risk_factor = 9
    /\ result.value.cost_analysis.development_cost > 0
    /\ result.value.cash_flow_projection[1].cash_flow =
          0 - result.value.cost_analysis.development_cost

\* The categories a list of recommendations carries, in order.
Categories(recommendations) ==
    [i \in 1..Len(recommendations) |-> recommendations[i].category]

\* The payback, NPV and ROI categories the specification states for a payback
\* period (None or <<months>>), an NPV in cents and an ROI in hundreds of
\* percent.
StatedPaybackCategory(payback) ==
    IF payback = None \/ payback[1].num < 0 THEN "Financial Risk"
    ELSE IF payback[1].num <= 12 * payback[1].den THEN "Quick ROI"
    ELSE IF payback[1].num <= 24 * payback[1].den THEN "Moderate ROI"
    ELSE "Long Payback"

StatedNpvCategory(npv) ==
    IF npv > 5000000 THEN "High Value"
    ELSE IF npv > 1000000 THEN "Positive Value"
    ELSE IF npv > 0 - 1000000 THEN "Break Even"
    ELSE "Negative Value"

StatedRoiCategories(roi) ==
    IF Exceeds(roi, 1) THEN <<"Excellent ROI">>
    ELSE IF 2 * roi.num > roi.den THEN <<"Good ROI">>
    ELSE IF Exceeds(roi, 0) THEN <<"Positive ROI">>
    ELSE <<>>

StatedCategories(payback, npv, roi) ==
    <<StatedPaybackCategory(payback), StatedNpvCategory(npv)>>
        \o StatedRoiCategories(roi)

RecommendationsReturned ==
    Done("_generate_roi_recommendations") /\ result.kind = "ok"

\* C25: _generate_roi_recommendations emits one payback recommendation, then
\* one NPV recommendation, then at most one ROI recommendation, each of the
\* category the thresholds of the specification give; the recommendations of
\* calculate_comprehensive_roi are those of its payback period, NPV and ROI.
C25_RecommendationCategories ==
    /\ RecommendationsReturned =>
        Categories(result.value) =
            StatedCategories(call.payback_months, call.npv, call.roi_percentage)
    /\ RoiReturned =>
        Categories(result.value.recommendations) =
            StatedCategories(result.value.roi_metrics.payback_period_months,
                             result.value.roi_metrics.npv,
                             result.value.roi_metrics.roi_percentage)

\* A payback period of exactly 12 months with an NPV of exactly 10000 and an
\* ROI of exactly 50 percent: 'Quick ROI', 'Break Even' and 'Positive ROI'.
C25_Witness ==
    /\ RecommendationsReturned
    /\ call.payback_months = Some(Ratio(12, 1))
    /\ call.npv = 1000000
    /\ call.roi_percentage = Ratio(1, 2)
    /\ Categories(result.value) = <<"Quick ROI", "Break Even", "Positive ROI">>

\* The cumulative cash flow of the recurrence of _generate_cash_flow_projection
\* after a number of months, in 10^-3 dollars, for the record returned.
CumulativeAfter(months) ==
    months * 10 * result.value.cost_analysis.monthly_savings
        - result.value.cost_analysis.development_cost

\* C26: a non-null break_even_month b is the first month of the cash-flow
\* recurrence with a strictly positive cumulative cash flow, and
\* break_even_month is null whenever payback_period_months is null.
C26_BreakEvenIsFirstPositiveMonth ==
    RoiReturned =>
        LET metrics == result.value.roi_metrics
            b == metrics.break_even_month
        IN  /\ b # None =>
                /\ result.value.cost_analysis.monthly_savings > 0
                /\ result.value.cost_analysis.development_cost > 0
                /\ CumulativeAfter(b[1]) > 0
                /\ CumulativeAfter(b[1] - 1) <= 0
                /\ \A i \in 1..Len(result.value.cash_flow_projection) :
                        result.value.cash_flow_projection[i].cumulative_cash_flow > 0
                            <=> i - 1 >= b[1]
            /\ metrics.payback_period_months = None => b = None

\* The cumulative cash flow of the last entry of the projection returned.
FinalCumulativeCashFlow ==
    LET projection == result.value.cash_flow_projection
    IN  projection[Len(projection)].cumulative_cash_flow

\* C27: for a positive risk adjusted development cost roi_percentage > 0
\* exactly when payback_period_months is non-null and less than
\* analysis_period_months, and exactly when the final cumulative cash flow of
\* the projection is positive; and with a null payback period roi_percentage
\* is at most -100.
C27_RoiMetricsConsistent ==
    (RoiReturned /\ result.value.cost_analysis.development_cost > 0) =>
        LET metrics == result.value.roi_metrics
            payback == metrics.payback_period_months
            profitable == Exceeds(metrics.roi_percentage, 0)
        IN  /\ profitable <=>
                (payback # None /\ Below(payback[1], call.analysis_period_months))
            /\ profitable <=> FinalCumulativeCashFlow > 0
            /\ payback = None => ~Exceeds(metrics.roi_percentage, 0 - 1)

\* The outcome of estimate_migration_savings for the frameworks, model and
\* requests_per_month of the calculate_comprehensive_roi call made.
MigrationOfSameArguments ==
    estimate_migration_savings(call.current_framework, call.target_framework,
                               call.model, call.requests_per_month)

StatedCostOrder == <<"semantic_kernel", "autogen", "crewai", "langchain", "langgraph">>

\* The total cost of the framework at a place of the stated order, for the
\* model, requests_per_month and custom_tokens of the call made.
TotalCostAt(place) ==
    calculate_monthly_cost(StatedCostOrder[place], call.model,
                           call.requests_per_month, call.custom_tokens).total_cost

\* C29: for every model, positive requests_per_month and no or a positive
\* custom token count the total cost does not decrease along semantic_kernel,
\* autogen, crewai, langchain, langgraph; a migration to semantic_kernel never
\* has negative monthly_savings and one to langgraph never positive ones.
C29_FrameworkCostOrder ==
    /\ (Done("calculate_monthly_cost") /\ PositiveRequests /\ PositiveTokens) =>
        \A place \in 1..(Len(StatedCostOrder) - 1) :
            call.framework = StatedCostOrder[place] =>
                /\ result.value.total_cost = TotalCostAt(place)
                /\ result.value.total_cost <= TotalCostAt(place + 1)
    /\ (MigrationReturned /\ PositiveRequests) =>
        /\ call.to_framework = "semantic_kernel" => result.value.monthly_savings >= 0
        /\ call.to_framework = "langgraph" => result.value.monthly_savings <= 0

\* langchain with a positive custom token count, strictly cheaper than
\* langgraph, which differs from it by the overhead multiplier alone.
C29_Witness ==
    /\ Done("calculate_monthly_cost") /\ PositiveRequests
    /\ call.custom_tokens # None /\ PositiveTokens
    /\ call.framework = "langchain"
    /\ call.model = "openai_gpt4o"
    /\ result.value.total_cost < TotalCostAt(5)

\* The recommendations returned and what they say.
RecommendedCategories == Range(Categories(result.value.recommendations))
RoiCategories == {"Excellent ROI", "Good ROI", "Positive ROI"}
ValueCategories == {"High Value", "Positive Value"}

\* C30: for a positive risk adjusted development cost 'Financial Risk' is
\* recommended exactly when monthly_savings is not positive, and then with no
\* ROI recommendation and neither 'High Value' nor 'Positive Value'; 'High
\* Value' and 'Positive Value' always come with an ROI recommendation.
C30_RecommendationsNotContradictory ==
    (RoiReturned /\ result.value.cost_analysis.development_cost > 0) =>
        /\ "Financial Risk" \in RecommendedCategories
                <=> result.value.cost_analysis.monthly_savings <= 0
        /\ "Financial Risk" \in RecommendedCategories =>
                RecommendedCategories \cap (RoiCategories \cup ValueCategories) = {}
        /\ RecommendedCategories \cap ValueCategories # {} =>
                RecommendedCategories \cap RoiCategories # {}

\* A migration of a team of five over six months whose NPV exceeds 10000:
\* 'Positive Value' with an ROI recommendation.
C30_Witness ==
    /\ RoiReturned
    /\ call.team_size > 0 /\ call.timeline_months > 0
    /\ result.value.cost_analysis.development_cost > 0
    /\ "Positive Value" \in RecommendedCategories
    /\ RecommendedCategories \cap RoiCategories # {}

\* A migration that costs money every month: 'Financial Risk' alone among
\* the payback and ROI recommendations.
FinancialRiskRecommended ==
    /\ RoiReturned
    /\ result.value.cost_analysis.development_cost > 0
    /\ result.value.cost_analysis.monthly_savings < 0
    /\ "Financial Risk" \in RecommendedCategories

====
